---- MODULE Spec2Model ----
(***************************************************************************)
(* The isolated test runtime of packages/jest-runtime/src/index.js:        *)
(* module registries (main, isolated, internal), the mock registry, the    *)
(* mock policy engine (_shouldMock), isolateModules, resetModules and the  *)
(* auto-mock generator, as a state machine.                                *)
(*                                                                         *)
(* JavaScript objects that the runtime replaces and aliases (registries)   *)
(* live in heaps (modRegs, mockRegs) and are named by their index, so that *)
(* "the same object" and "an equal object" stay different things.          *)
(* Prototype-free maps are functions whose DOMAIN is the set of keys.      *)
(*                                                                         *)
(* User code (test callbacks, module bodies, mock factories, the callback  *)
(* of isolateModules) is a frame on `stack` that performs any operation,   *)
(* returns or throws.  Left out: .json and .node files (lines 350-356),    *)
(* getMetadata returning null (lines 769-774), and the sandbox part of     *)
(* resetModules (lines 495-512).  The sandbox environment is a             *)
(* collaborator: the model keeps which of its parts (global, fakeTimers,   *)
(* the context runScript needs) are still there.  So is the transformer:   *)
(* the model keeps whether it wrote a source map for a file.               *)
(***************************************************************************)
EXTENDS Integers, Sequences, FiniteSets, TLC

VARIABLES
    modRegs,                  \* heap of module registries: index -> [path -> module object index]
    mockRegs,                 \* heap of mock registries: index -> [moduleID -> mock value]
    insts,                    \* heap of module objects (localModule), in allocation order
    moduleRegistry,           \* this._moduleRegistry (index into modRegs)
    mockRegistry,             \* this._mockRegistry (index into mockRegs)
    isolatedModuleRegistry,   \* this._isolatedModuleRegistry (index into modRegs, Null when null)
    isolatedMockRegistry,     \* this._isolatedMockRegistry (index into mockRegs, Null when null)
    internalModuleRegistry,   \* this._internalModuleRegistry (index into modRegs)
    currentlyExecutingModulePath,     \* this._currentlyExecutingModulePath
    isCurrentlyExecutingManualMock,   \* this._isCurrentlyExecutingManualMock
    mockMetaDataCache,        \* this._mockMetaDataCache: path -> "placeholder" | "metadata"
    explicitShouldMock,       \* this._explicitShouldMock: moduleID -> BOOLEAN
    mockFactories,            \* this._mockFactories: moduleID -> the value its factory returns
    virtualMocks,             \* this._virtualMocks: the paths marked virtual
    transitiveShouldMock,     \* this._transitiveShouldMock: moduleID -> BOOLEAN
    shouldMockModuleCache,    \* this._shouldMockModuleCache: moduleID -> BOOLEAN
    shouldUnmockTransitiveDependenciesCache,  \* the keys <<from, moduleID>> set to true
    shouldAutoMock,           \* this._shouldAutoMock
    environment,              \* this._environment: which parts of the sandbox are present
    exitCode,                 \* process.exitCode
    errorLog,                 \* what console.error has printed, in order
    sourceMapRegistry,        \* this._sourceMapRegistry: file name -> path of its sidecar
    needsCoverageMapped,      \* this._needsCoverageMapped: a set of file names
    scriptTransformer,        \* what ScriptTransformer.transform answers for each file
    disk,                     \* the sidecar files that exist (fs.existsSync)
    runTest,                  \* runTestInternal: where the call stands and what it has done
    watch,                    \* watch: the variables of its closure (isRunning, testWatcher, ...)
    testRun,                  \* TestRunner.runTests: the tests, the watcher, the worker farm
    stack,                    \* the JavaScript call stack: one frame per running user function
    calls,                    \* how many calls into the runtime user code has made
    last                      \* what the latest operation did and returned (observation)

registryVars == <<modRegs, mockRegs, insts, moduleRegistry, mockRegistry,
                  isolatedModuleRegistry, isolatedMockRegistry, internalModuleRegistry>>
ambientVars == <<currentlyExecutingModulePath, isCurrentlyExecutingManualMock>>
policyVars == <<explicitShouldMock, mockFactories, virtualMocks, transitiveShouldMock,
                shouldAutoMock>>
memoVars == <<shouldMockModuleCache, shouldUnmockTransitiveDependenciesCache>>
envVars == <<environment, exitCode, errorLog>>
sourceMapVars == <<sourceMapRegistry, needsCoverageMapped, scriptTransformer, disk>>
\* the programs around the runtime: the function that runs one test file, the
\* watch mode, the test runner
hostVars == <<runTest, watch, testRun>>
vars == <<registryVars, ambientVars, mockMetaDataCache, policyVars, memoVars,
          envVars, sourceMapVars, hostVars, stack, calls, last>>

\* ---------------------------------------------------------------- bounds
MaxDepth == 3     \* user functions on the call stack
MaxCalls == 4     \* calls into the module loader made by the test and its modules

\* ---------------------------------------------------------------- values
Null == 0
EmptyObject == [k \in {} |-> FALSE]
Put(obj, k, v) == [x \in (DOMAIN obj) \cup {k} |-> IF x = k THEN v ELSE obj[x]]

\* ------------------------------------------------- the resolver (collaborator)
\* One request string per file; the test file is the root of every run.
TestPath == "test"
UserFiles == {"a", "b"}
NodeModuleFiles == {"nm/lib", "nm/pad", "nm/dep"}
\* host built-ins; the project ships a manual mock for one of them
CoreModules == {"fs", "os"}
MockedCoreModules == {"os"}
\* a module known to the haste map by name, which also has a manual mock
HasteNames == {"haste"}
\* requests with no file behind them: one has a manual mock, one has nothing
MockOnlyNames == {"ghost"}
MissingNames == {"missing"}
Files == {TestPath} \cup UserFiles \cup NodeModuleFiles \cup HasteNames

IsCoreModule(moduleName) == moduleName \in CoreModules
Resolvable(moduleName) == moduleName \in Files
GetModulePath(from, moduleName) == moduleName
GetModuleID(vm, from, moduleName) == IF moduleName = "" THEN from ELSE moduleName
GetMockModule(from, moduleName) ==
    IF moduleName \in MockOnlyNames \cup HasteNames \cup MockedCoreModules
    THEN "mocks/" \o moduleName ELSE ""
\* NODE_MODULES = path.sep + 'node_modules' + path.sep; p.includes(NODE_MODULES)
IncludesNodeModules(p) == p \in NodeModuleFiles
\* config.unmockedModulePathPatterns = ['nm/pad'] compiled to this._unmockList
UnmockListTest(p) == p \in {"nm/pad"}

\* The files the loader specifications require, and the resolver's view of them.
LoaderNames == {"a", "b"}
\* subDir/__mocks__/b sits next to subDir/b: fs.existsSync(potentialManualMock)
FilesWithSiblingMock == {"b"}
PotentialManualMock(modulePath) == "__mocks__/" \o modulePath
GetModule(moduleName) == IF moduleName \in HasteNames THEN moduleName ELSE ""
ResolveStubModuleName(from, moduleName) == ""
ResolveModule(from, to) == IF to = "" THEN from ELSE to

\* ---------------------------------------------------------------- observations
\* last.rm: the requireModule call made by the latest operation, if any: the
\*   resolved path, whether a body started executing, the module object served,
\*   and this._moduleRegistry / this._isolatedModuleRegistry when it was made.
\* last.gen: the auto-mock generation (lines 746-778) the latest operation
\*   completed, if any: the module path, the main registry saved when it began
\*   and its contents then.
NoCall == [path |-> "", exec |-> FALSE, inst |-> Null, main |-> Null, iso |-> Null,
           internal |-> FALSE]
NoGen == [done |-> FALSE, path |-> "", orig |-> Null, snap |-> EmptyObject]
\* last.val: the value a mock factory produced, when ret is that value.
\* last.torn: why _execModule returned without calling the wrapper, if it did.
Obs(op, from, name, ret, inst) ==
    [op |-> op, from |-> from, name |-> name, ret |-> ret, inst |-> inst,
     val |-> Null, torn |-> "", rm |-> NoCall, gen |-> NoGen]

\* ---------------------------------------------------------------- _shouldMock
\* The decision and the memo tables after the call.  ret is "true", "false"
\* or "throw" (the resolver's MODULE_NOT_FOUND propagating).
ShouldMockResult(ret, smc, tsm, sutdc) ==
    [ret |-> ret, smc |-> smc, tsm |-> tsm, sutdc |-> sutdc]

\* A variant that leaves out the vendored half of the rule (lines 836-839).
TransitiveMemoOnly(from, moduleName) ==
    LET currentModuleID == GetModuleID(virtualMocks, from, "")
    IN  /\ currentModuleID \in DOMAIN transitiveShouldMock
        /\ transitiveShouldMock[currentModuleID] = FALSE

\* lines 834-840: the dependency of a transitively unmocked or vendored module
TransitiveUnmock(from, moduleName) ==
    LET currentModuleID == GetModuleID(virtualMocks, from, "")
    IN  \/ /\ currentModuleID \in DOMAIN transitiveShouldMock
           /\ transitiveShouldMock[currentModuleID] = FALSE
        \/ /\ IncludesNodeModules(from)
           /\ IncludesNodeModules(ResolveModule(from, moduleName))
           /\ \/ UnmockListTest(from)
              \/ /\ currentModuleID \in DOMAIN explicitShouldMock
                 /\ explicitShouldMock[currentModuleID] = FALSE

\* A variant that skips lines 812-845: whatever no table decides is mocked.
AlwaysMocked(from, moduleName) ==
    ShouldMockResult("true",
                     Put(shouldMockModuleCache,
                         GetModuleID(virtualMocks, from, moduleName), TRUE),
                     transitiveShouldMock, shouldUnmockTransitiveDependenciesCache)

\* A variant that takes every resolved module for a transitive dependency and
\* records the requiring module along with the required one.
ResolvedRecordingRequirer(from, moduleName) ==
    ShouldMockResult("false", shouldMockModuleCache,
                     Put(Put(transitiveShouldMock,
                             GetModuleID(virtualMocks, from, moduleName), FALSE),
                         GetModuleID(virtualMocks, from, ""), FALSE),
                     shouldUnmockTransitiveDependenciesCache)

\* lines 812-846: no table and no memo decides; the module is resolved
ShouldMockResolved(from, moduleName) ==
    LET moduleID == GetModuleID(virtualMocks, from, moduleName)
        key == <<from, moduleID>>
    IN  IF ~Resolvable(moduleName)
        THEN IF GetMockModule(from, moduleName) # ""
             THEN ShouldMockResult("true", Put(shouldMockModuleCache, moduleID, TRUE),
                                   transitiveShouldMock,
                                   shouldUnmockTransitiveDependenciesCache)
             ELSE ShouldMockResult("throw", shouldMockModuleCache, transitiveShouldMock,
                                   shouldUnmockTransitiveDependenciesCache)
        ELSE IF UnmockListTest(ResolveModule(from, moduleName))
        THEN ShouldMockResult("false", Put(shouldMockModuleCache, moduleID, FALSE),
                              transitiveShouldMock,
                              shouldUnmockTransitiveDependenciesCache)
        ELSE IF TransitiveUnmock(from, moduleName)
        THEN ShouldMockResult("false", shouldMockModuleCache,
                              Put(transitiveShouldMock, moduleID, FALSE),
                              shouldUnmockTransitiveDependenciesCache \cup {key})
        ELSE ShouldMockResult("true", Put(shouldMockModuleCache, moduleID, TRUE),
                              transitiveShouldMock,
                              shouldUnmockTransitiveDependenciesCache)

\* lines 782-810, then the rest
ShouldMock(from, moduleName) ==
    LET mockPath == GetModulePath(from, moduleName)
        moduleID == GetModuleID(virtualMocks, from, moduleName)
        key == <<from, moduleID>>
        same(ret) == ShouldMockResult(ret, shouldMockModuleCache, transitiveShouldMock,
                                      shouldUnmockTransitiveDependenciesCache)
        str(b) == IF b THEN "true" ELSE "false"
    IN  IF mockPath \in virtualMocks THEN same("true")
        ELSE IF moduleID \in DOMAIN explicitShouldMock
        THEN same(str(explicitShouldMock[moduleID]))
        ELSE IF \/ ~shouldAutoMock
                \/ IsCoreModule(moduleName)
                \/ key \in shouldUnmockTransitiveDependenciesCache
        THEN same("false")
        ELSE IF moduleID \in DOMAIN shouldMockModuleCache
        THEN same(str(shouldMockModuleCache[moduleID]))
        ELSE ShouldMockResolved(from, moduleName)

\* ---------------------------------------------------------------- jest object
\* _execModule passes each module body its own framework handle, the object
\* `jestObject` that _createJestObjectFor builds for that execution (lines
\* 716-720, 992-1034).  A handle is named by the module object it was built
\* for; Null names the handle of the test file.  JestObjectOf(stk) is the
\* handle in scope for the code that runs on top of stk.
JestObjectOf(stk) ==
    LET bodies == {n \in 1..Len(stk) : stk[n].k = "body"}
    IN  IF bodies = {} THEN Null
        ELSE stk[CHOOSE n \in bodies : \A m \in bodies : m <= n].inst

\* The framework-handle operations of _createJestObjectFor(from, ...) that write
\* the policy tables.  Each is called by the code of module `from`.
DisableAutomock ==
    /\ shouldAutoMock' = FALSE
    /\ last' = Obs("disableAutomock", "", "", "jestObject", JestObjectOf(stack))
    /\ UNCHANGED <<explicitShouldMock, mockFactories, virtualMocks, transitiveShouldMock>>

EnableAutomock ==
    /\ shouldAutoMock' = TRUE
    /\ last' = Obs("enableAutomock", "", "", "jestObject", JestObjectOf(stack))
    /\ UNCHANGED <<explicitShouldMock, mockFactories, virtualMocks, transitiveShouldMock>>

\* A variant of unmock that writes no table.
UnmockIgnored(from, moduleName) ==
    /\ last' = Obs("unmock", from, moduleName, "jestObject", Null)
    /\ UNCHANGED <<explicitShouldMock, mockFactories, virtualMocks, transitiveShouldMock,
                   shouldAutoMock>>

\* unmock / dontMock, lines 896-904
Unmock(from, moduleName) ==
    /\ explicitShouldMock' =
           Put(explicitShouldMock, GetModuleID(virtualMocks, from, moduleName), FALSE)
    /\ last' = Obs("unmock", from, moduleName, "jestObject", JestObjectOf(stack))
    /\ UNCHANGED <<mockFactories, virtualMocks, transitiveShouldMock, shouldAutoMock>>

\* A variant of deepUnmock that writes the explicit table only.
DeepUnmockShallow(from, moduleName) ==
    /\ explicitShouldMock' =
           Put(explicitShouldMock, GetModuleID(virtualMocks, from, moduleName), FALSE)
    /\ last' = Obs("deepUnmock", from, moduleName, "jestObject", Null)
    /\ UNCHANGED <<mockFactories, virtualMocks, transitiveShouldMock, shouldAutoMock>>

\* deepUnmock, lines 905-914
DeepUnmock(from, moduleName) ==
    LET moduleID == GetModuleID(virtualMocks, from, moduleName)
    IN  /\ explicitShouldMock' = Put(explicitShouldMock, moduleID, FALSE)
        /\ transitiveShouldMock' = Put(transitiveShouldMock, moduleID, FALSE)
        /\ last' = Obs("deepUnmock", from, moduleName, "jestObject", JestObjectOf(stack))
        /\ UNCHANGED <<mockFactories, virtualMocks, shouldAutoMock>>

\* mock(moduleName) with no factory
Mock(from, moduleName) ==
    /\ explicitShouldMock' =
           Put(explicitShouldMock, GetModuleID(virtualMocks, from, moduleName), TRUE)
    /\ last' = Obs("mock", from, moduleName, "jestObject", JestObjectOf(stack))
    /\ UNCHANGED <<mockFactories, virtualMocks, transitiveShouldMock, shouldAutoMock>>

\* Runtime.setMock, reached from mock(name, factory, options), doMock and setMock
SetMock(from, moduleName, mockFactory, virtual) ==
    LET vm == IF virtual THEN virtualMocks \cup {GetModulePath(from, moduleName)}
                         ELSE virtualMocks
        moduleID == GetModuleID(vm, from, moduleName)
    IN  /\ virtualMocks' = vm
        /\ explicitShouldMock' = Put(explicitShouldMock, moduleID, TRUE)
        /\ mockFactories' = Put(mockFactories, moduleID, mockFactory)
        /\ last' = Obs("setMock", from, moduleName, "jestObject", JestObjectOf(stack))
        /\ UNCHANGED <<transitiveShouldMock, shouldAutoMock>>

\* ---------------------------------------------------------------- SpecPolicy
\* The policy engine on its own: the framework handles of the loaded modules
\* write the tables, and every module's require consults _shouldMock.
PolicyFroms == {TestPath, "nm/lib", "nm/pad"}
PolicyNames == {"nm/dep", "nm/pad", "fs", "ghost", "missing"}
\* the requests the test file's handle configures, per operation
UnmockTargets == {"nm/lib", "nm/dep"}
DeepUnmockTargets == {"nm/lib"}
MockTargets == {"nm/dep", "fs"}
SetMockTargets == {"nm/dep"}

loaderVars == <<registryVars, ambientVars, mockMetaDataCache, envVars, sourceMapVars,
                hostVars, stack, calls>>

ShouldMockCall(from, moduleName) ==
    LET r == ShouldMock(from, moduleName)
    IN  /\ shouldMockModuleCache' = r.smc
        /\ transitiveShouldMock' = r.tsm
        /\ shouldUnmockTransitiveDependenciesCache' = r.sutdc
        /\ last' = Obs("shouldMock", from, moduleName, r.ret, Null)
        /\ UNCHANGED <<explicitShouldMock, mockFactories, virtualMocks, shouldAutoMock>>

\* ScriptTransformer.transform(filename, ...): the fields of the answer that
\* _execModule reads besides the script
NoSourceMap == [sourceMapPath |-> "", mapCoverage |-> FALSE]
Transform(filename) ==
    IF filename \in DOMAIN scriptTransformer THEN scriptTransformer[filename]
    ELSE NoSourceMap

\* The programs around the runtime have not been started: the specifications
\* of the runtime begin with a runtime that was constructed for them.
NotStarted ==
    /\ runTest = [pc |-> "idle"]
    /\ watch = [pc |-> "idle"]
    /\ testRun = [pc |-> "idle"]

\* the fields of a runtime after construction (lines 116-181)
Constructed ==
    /\ NotStarted
    /\ sourceMapRegistry = EmptyObject
    /\ needsCoverageMapped = {}
    /\ modRegs = <<EmptyObject, EmptyObject>>
    /\ mockRegs = <<EmptyObject>>
    /\ insts = <<>>
    /\ internalModuleRegistry = 1
    /\ moduleRegistry = 2
    /\ mockRegistry = 1
    /\ isolatedModuleRegistry = Null
    /\ isolatedMockRegistry = Null
    /\ currentlyExecutingModulePath = ""
    /\ isCurrentlyExecutingManualMock = ""
    /\ mockMetaDataCache = EmptyObject
    /\ explicitShouldMock = EmptyObject
    /\ mockFactories = EmptyObject
    /\ virtualMocks = {}
    /\ transitiveShouldMock = EmptyObject
    /\ shouldMockModuleCache = EmptyObject
    /\ shouldUnmockTransitiveDependenciesCache = {}
    /\ environment = [global |-> TRUE, fakeTimers |-> TRUE, context |-> TRUE]
    /\ exitCode = 0
    /\ errorLog = <<>>
    /\ stack = <<>>
    /\ calls = 0
    /\ last = Obs("constructor", "", "", "", Null)

\* a runtime whose transformer writes no source maps
InitRuntime ==
    /\ Constructed
    /\ scriptTransformer = EmptyObject
    /\ disk = {}

InitPolicy ==
    /\ InitRuntime
    /\ shouldAutoMock \in BOOLEAN

PolicyFrame == UNCHANGED <<memoVars, loaderVars>>

NextPolicy ==
    \/ DisableAutomock /\ PolicyFrame
    \/ EnableAutomock /\ PolicyFrame
    \/ \E moduleName \in UnmockTargets : Unmock(TestPath, moduleName) /\ PolicyFrame
    \/ \E moduleName \in DeepUnmockTargets :
           DeepUnmock(TestPath, moduleName) /\ PolicyFrame
    \/ \E moduleName \in MockTargets : Mock(TestPath, moduleName) /\ PolicyFrame
    \/ \E moduleName \in SetMockTargets, virtual \in BOOLEAN :
           SetMock(TestPath, moduleName, 1, virtual) /\ PolicyFrame
    \/ \E from \in PolicyFroms, moduleName \in PolicyNames :
           ShouldMockCall(from, moduleName) /\ UNCHANGED loaderVars

SpecPolicy == InitPolicy /\ [][NextPolicy]_vars


\* ---------------------------------------------------------------- the loader

\* The runtime's mutable fields as one value, so that the calls one handler
\* makes compose; Commit writes them back.
St ==
    [modRegs |-> modRegs, mockRegs |-> mockRegs, insts |-> insts,
     moduleRegistry |-> moduleRegistry, mockRegistry |-> mockRegistry,
     isolatedModuleRegistry |-> isolatedModuleRegistry,
     isolatedMockRegistry |-> isolatedMockRegistry,
     currentlyExecutingModulePath |-> currentlyExecutingModulePath,
     isCurrentlyExecutingManualMock |-> isCurrentlyExecutingManualMock,
     mockMetaDataCache |-> mockMetaDataCache,
     exitCode |-> exitCode, errorLog |-> errorLog,
     sourceMapRegistry |-> sourceMapRegistry,
     needsCoverageMapped |-> needsCoverageMapped,
     stack |-> stack, last |-> last]

Commit(s) ==
    /\ modRegs' = s.modRegs
    /\ mockRegs' = s.mockRegs
    /\ insts' = s.insts
    /\ moduleRegistry' = s.moduleRegistry
    /\ mockRegistry' = s.mockRegistry
    /\ isolatedModuleRegistry' = s.isolatedModuleRegistry
    /\ isolatedMockRegistry' = s.isolatedMockRegistry
    /\ currentlyExecutingModulePath' = s.currentlyExecutingModulePath
    /\ isCurrentlyExecutingManualMock' = s.isCurrentlyExecutingManualMock
    /\ mockMetaDataCache' = s.mockMetaDataCache
    /\ exitCode' = s.exitCode
    /\ errorLog' = s.errorLog
    /\ sourceMapRegistry' = s.sourceMapRegistry
    /\ needsCoverageMapped' = s.needsCoverageMapped
    /\ stack' = s.stack
    /\ last' = s.last
    /\ UNCHANGED <<internalModuleRegistry, environment, scriptTransformer, disk, hostVars>>

\* What the runtime functions between the user code and a module body still
\* have to do when the body returns: nothing (a plain requireModule), the tail
\* of _generateMock, the tail of requireMock.
NoCtx == [via |-> "require", origMod |-> Null, origMock |-> Null, snap |-> EmptyObject,
          mockReg |-> Null, id |-> "", metaPath |-> "", val |-> Null]
\* what a mock registry holds: an auto-mock, the exports of a manual mock's
\* module object, or the value a factory returned
MockValue(kind, inst) == [kind |-> kind, inst |-> inst, val |-> Null]
FactoryResult(val) == [kind |-> "factory", inst |-> Null, val |-> val]

\* Factory results that JavaScript treats as false (0 stands for 0, null,
\* undefined, '' and false).  Mock objects made by the runtime are objects.
FalsyValues == {0}
\* `if (this._mockRegistry[moduleID])`: the registries are tested for a truthy
\* entry, not for the presence of the key.
Truthy(value) == ~(value.kind = "factory" /\ value.val \in FalsyValues)
HoldsMock(s, reg, moduleID) ==
    /\ moduleID \in DOMAIN s.mockRegs[reg]
    /\ Truthy(s.mockRegs[reg][moduleID])

\* the isolateModules call whose callback encloses the running code: the
\* position of its frame on the stack (0: none)
InnermostIso(stk) ==
    LET isos == {n \in 1..Len(stk) : stk[n].k = "iso"}
    IN  IF isos = {} THEN Null
        ELSE CHOOSE n \in isos : \A m \in isos : m <= n

\* the module whose code is running, and whether it is an internal module
CurFrom == IF stack = <<>> THEN TestPath ELSE stack[Len(stack)].self
CurInternal == stack # <<>> /\ stack[Len(stack)].internal

\* an error raised by the runtime, not yet caught
Raise(s) == [s EXCEPT !.last.ret = "throw"]

\* The error leaves `k` running user functions before one catches it.  No
\* function of the runtime that it crosses has a handler or a finally block.
Unwind(s, k) ==
    [s EXCEPT !.stack = SubSeq(@, 1, Len(@) - k),
              !.insts = [i \in DOMAIN s.insts |->
                            IF s.insts[i].scope > Len(s.stack) - k
                            THEN [s.insts[i] EXCEPT !.scope = Null, !.ended = "thrown"]
                            ELSE s.insts[i]]]

\* requireMock lines 443-450 and 392: store the mock and return it
StoreMock(s, ctx, value, ret) ==
    [s EXCEPT !.mockRegs[ctx.mockReg] = Put(@, ctx.id, value),
              !.last.ret = ret,
              !.last.inst = value.inst,
              !.last.val = value.val]

\* A variant of the tail of _generateMock that forgets line 766.
FinishWithoutRestore(s, ctx) ==
    LET s1 == [s EXCEPT !.mockRegistry = ctx.origMock,
                        !.mockMetaDataCache = Put(@, ctx.metaPath, "metadata"),
                        !.last.gen = [done |-> TRUE, path |-> ctx.metaPath,
                                      orig |-> ctx.origMod, snap |-> ctx.snap]]
    IN  IF ctx.via = "requireMock"
        THEN StoreMock(s1, ctx, MockValue("auto", Null), "automock")
        ELSE [s1 EXCEPT !.last.ret = "automock", !.last.inst = Null]

\* _generateMock lines 764-779, after its requireModule call returned
FinishGenerate(s, ctx) ==
    LET s1 == [s EXCEPT !.mockRegistry = ctx.origMock,
                        !.moduleRegistry = ctx.origMod,
                        !.mockMetaDataCache = Put(@, ctx.metaPath, "metadata"),
                        !.last.gen = [done |-> TRUE, path |-> ctx.metaPath,
                                      orig |-> ctx.origMod, snap |-> ctx.snap]]
    IN  IF ctx.via = "requireMock"
        THEN StoreMock(s1, ctx, MockValue("auto", Null), "automock")
        ELSE [s1 EXCEPT !.last.ret = "automock", !.last.inst = Null]

\* The value of a requireModule call reaches its caller.
ContinueS(s, ctx, ret, inst) ==
    IF ctx.via = "require"
    THEN [s EXCEPT !.last.ret = ret, !.last.inst = inst]
    ELSE FinishGenerate(s, ctx)

\* Variants of the registry choice: the isolated registry whenever there is
\* one; the main registry always.
SelectIsolatedFirst(s, modulePath, internal) ==
    IF internal THEN internalModuleRegistry
    ELSE IF s.isolatedModuleRegistry # Null THEN s.isolatedModuleRegistry
    ELSE s.moduleRegistry
SelectMainOnly(s, modulePath, internal) ==
    IF internal THEN internalModuleRegistry ELSE s.moduleRegistry

\* A variant that treats an internal request like any other.
SelectIgnoringInternal(s, modulePath, internal) ==
    IF \/ modulePath \in DOMAIN s.modRegs[s.moduleRegistry]
       \/ s.isolatedModuleRegistry = Null
    THEN s.moduleRegistry
    ELSE s.isolatedModuleRegistry

\* requireModule lines 326-336 (rule R-LAYER)
SelectRegistry(s, modulePath, internal) ==
    IF ~internal
    THEN IF \/ modulePath \in DOMAIN s.modRegs[s.moduleRegistry]
            \/ s.isolatedModuleRegistry = Null
         THEN s.moduleRegistry
         ELSE s.isolatedModuleRegistry
    ELSE internalModuleRegistry

\* The caller of _execModule goes on after it: requireModule lines 360-365,
\* requireMock lines 443-444 and 450.
AfterExecModule(s, inst, ctx) ==
    LET s1 == [s EXCEPT !.insts[inst].loaded = TRUE,
                        !.last.inst = inst]
    IN  IF ctx.via = "manualMock"
        THEN StoreMock(s1, ctx, MockValue("manual", inst), "manualMock")
        ELSE ContinueS(s1, ctx, "exports", inst)

\* the messages of _logFormattedReferenceError (the first has back quotes
\* around the word import in the source)
ImportAfterTeardown ==
    "You are trying to import a file after the Jest environment has been torn down."
AccessAfterTeardown ==
    "You are trying to access a property or method of the Jest environment after it has been torn down."

\* _logFormattedReferenceError lines 1037-1051: console.error of the message
LogFormattedReferenceError(s, errorMessage) ==
    [s EXCEPT !.errorLog = Append(@, errorMessage)]

\* A variant of the null-script branch that returns and reports nothing.
ReturnSilently(s) == [s EXCEPT !.last.torn = "runScriptNull"]

\* _execModule lines 696-702: runScript returned null
RunScriptNull(s) ==
    [LogFormattedReferenceError(s, ImportAfterTeardown)
        EXCEPT !.exitCode = 1, !.last.torn = "runScriptNull"]

\* _execModule up to the call of the wrapper: the body of localModule starts,
\* unless the sandbox is gone.
ExecModuleS(s, inst, internal, reg, from, ctx, kind) ==
    LET filename == s.insts[inst].path
        frame == [k |-> kind, self |-> filename, internal |-> internal,
                  path |-> filename, inst |-> inst, reg |-> reg, from |-> from,
                  lastPath |-> s.currentlyExecutingModulePath,
                  origManual |-> s.isCurrentlyExecutingManualMock,
                  ctx |-> ctx]
        transformedFile == Transform(filename)
        registered == transformedFile.sourceMapPath # ""
        \* lines 649-651 and 687-692
        entered == [s EXCEPT !.currentlyExecutingModulePath = filename,
                             !.isCurrentlyExecutingManualMock = filename,
                             !.sourceMapRegistry =
                                 IF registered
                                 THEN Put(@, filename, transformedFile.sourceMapPath)
                                 ELSE @,
                             !.needsCoverageMapped =
                                 IF registered /\ transformedFile.mapCoverage
                                 THEN @ \cup {filename} ELSE @]
        noBody(st) == [st EXCEPT !.last.rm.exec = FALSE]
    IN  IF ~environment.global
        THEN \* lines 641-644
             AfterExecModule(noBody([s EXCEPT !.last.torn = "disposed"]), inst, ctx)
        ELSE IF ~environment.context
        THEN AfterExecModule(noBody(RunScriptNull(entered)), inst, ctx)
        ELSE [entered EXCEPT !.stack = Append(@, frame)]

\* A variant of the registry test that takes a module for registered only once
\* its body has returned (as if the module were inserted after execution).
RegisteredWhenLoaded(s, reg, modulePath) ==
    /\ modulePath \in DOMAIN s.modRegs[reg]
    /\ s.insts[s.modRegs[reg][modulePath]].loaded

\* requireModule line 338: moduleRegistry[modulePath] is set
Registered(s, reg, modulePath) == modulePath \in DOMAIN s.modRegs[reg]

\* localModule, lines 342-348.  Besides filename and loaded, a module object
\* carries its history: the isolateModules call it was created in (scope, the
\* position of that call's frame; ended: how that call finished), whether the
\* isolated registry was in place then (active), and whether resetModules has
\* been called since it was created (preReset).
NewModule(s, modulePath, reg, internal, kind) ==
    [path |-> modulePath, loaded |-> FALSE, internal |-> internal, kind |-> kind,
     scope |-> InnermostIso(s.stack), ended |-> "",
     active |-> s.isolatedModuleRegistry # Null,
     preReset |-> FALSE]

\* A variant of the test that substitutes whenever a manual mock exists.
ManualMockWheneverPresent(s, from, moduleName, internal, isRequireActual) ==
    moduleName # "" /\ GetMockModule(from, moduleName) # ""

\* requireModule lines 304-317: is the manual mock taken in place of the file?
UseManualMock(s, from, moduleName, internal, isRequireActual) ==
    LET moduleID == GetModuleID(virtualMocks, from, moduleName)
        moduleResource == IF moduleName = "" THEN "" ELSE GetModule(moduleName)
        manualMock == IF moduleName = "" THEN "" ELSE GetMockModule(from, moduleName)
    IN  /\ ~internal
        /\ ~isRequireActual
        /\ moduleResource = ""
        /\ manualMock # ""
        /\ manualMock # s.isCurrentlyExecutingManualMock
        /\ ~(/\ moduleID \in DOMAIN explicitShouldMock
             /\ explicitShouldMock[moduleID] = FALSE)

RequireModuleS(s, from, moduleName, internal, isRequireActual, ctx) ==
    LET manualMock == IF moduleName = "" THEN "" ELSE GetMockModule(from, moduleName)
        useManualMock == UseManualMock(s, from, moduleName, internal, isRequireActual)
    IN  IF moduleName # "" /\ IsCoreModule(moduleName)
        THEN ContinueS(s, ctx, "core", Null)
        ELSE IF ~useManualMock /\ moduleName # "" /\ ~Resolvable(moduleName)
        THEN Raise(s)
        ELSE
          LET modulePath == IF useManualMock THEN manualMock
                            ELSE ResolveModule(from, moduleName)
              reg == SelectRegistry(s, modulePath, internal)
              call(exec, inst) == [path |-> modulePath, exec |-> exec, inst |-> inst,
                                   main |-> s.moduleRegistry,
                                   iso |-> s.isolatedModuleRegistry,
                                   internal |-> internal]
          IN  IF Registered(s, reg, modulePath)
              THEN LET inst == s.modRegs[reg][modulePath]
                   IN  ContinueS([s EXCEPT !.last.rm = call(FALSE, inst)],
                                 ctx, "exports", inst)
              ELSE LET inst == Len(s.insts) + 1
                       s1 == [s EXCEPT
                                !.insts = Append(@, NewModule(s, modulePath, reg,
                                                              internal, "real")),
                                !.modRegs[reg] = Put(@, modulePath, inst),
                                !.last.rm = call(TRUE, inst),
                                !.last.ret = "exec",
                                !.last.inst = inst]
                   IN  ExecModuleS(s1, inst, internal, reg,
                                   IF moduleName # "" THEN from ELSE "", ctx, "body")

\* _generateMock lines 742-762
GenerateMockS(s, from, moduleName, ctx) ==
    IF ~Resolvable(moduleName) /\ ResolveStubModuleName(from, moduleName) = ""
    THEN Raise(s)
    ELSE
      LET modulePath == IF ResolveStubModuleName(from, moduleName) # ""
                        THEN ResolveStubModuleName(from, moduleName)
                        ELSE ResolveModule(from, moduleName)
      IN  IF modulePath \notin DOMAIN s.mockMetaDataCache
          THEN LET s1 == [s EXCEPT
                            !.mockMetaDataCache = Put(@, modulePath, "placeholder"),
                            !.mockRegs = Append(@, EmptyObject),
                            !.mockRegistry = Len(s.mockRegs) + 1,
                            !.modRegs = Append(@, EmptyObject),
                            !.moduleRegistry = Len(s.modRegs) + 1]
                   c == [ctx EXCEPT !.origMod = s.moduleRegistry,
                                    !.origMock = s.mockRegistry,
                                    !.snap = s.modRegs[s.moduleRegistry],
                                    !.metaPath = modulePath]
               IN  RequireModuleS(s1, from, moduleName, FALSE, FALSE, c)
          ELSE \* the metadata (or the placeholder of a generation under way) is reused
               IF ctx.via = "requireMock"
               THEN StoreMock(s, ctx, MockValue("auto", Null), "automock")
               ELSE [s EXCEPT !.last.ret = "automock", !.last.inst = Null]

\* A variant of the factory test that finds no factory.
NoFactory(moduleID) == FALSE

\* requireMock line 391: moduleID in this._mockFactories
HasFactory(moduleID) == moduleID \in DOMAIN mockFactories

\* requireMock lines 376-451
RequireMockS(s, from, moduleName) ==
    LET moduleID == GetModuleID(virtualMocks, from, moduleName)
        isoReg == s.isolatedMockRegistry
        mockReg == IF isoReg # Null THEN isoReg ELSE s.mockRegistry
        ctx == [NoCtx EXCEPT !.via = "requireMock", !.mockReg = mockReg,
                             !.id = moduleID]
        manualMockOrStub == GetMockModule(from, moduleName)
    IN  IF isoReg # Null /\ HoldsMock(s, isoReg, moduleID)
        THEN [s EXCEPT !.last.ret = "cachedMock",
                       !.last.inst = s.mockRegs[isoReg][moduleID].inst,
                       !.last.val = s.mockRegs[isoReg][moduleID].val]
        ELSE IF HoldsMock(s, s.mockRegistry, moduleID)
        THEN [s EXCEPT !.last.ret = "cachedMock",
                       !.last.inst = s.mockRegs[s.mockRegistry][moduleID].inst,
                       !.last.val = s.mockRegs[s.mockRegistry][moduleID].val]
        ELSE IF HasFactory(moduleID)
        THEN \* the user's factory runs; its result is stored when it returns
             [s EXCEPT !.last.ret = "factoryCall",
                       !.stack = Append(@,
                           [k |-> "factory", self |-> from, internal |-> FALSE,
                            path |-> "", inst |-> Null, reg |-> Null, from |-> from,
                            lastPath |-> "", origManual |-> "",
                            ctx |-> [ctx EXCEPT !.via = "factory",
                                                !.val = mockFactories[moduleID]]])]
        ELSE IF manualMockOrStub = "" /\ ~Resolvable(moduleName)
        THEN Raise(s)
        ELSE
          LET resolved == IF manualMockOrStub # "" THEN manualMockOrStub
                          ELSE ResolveModule(from, moduleName)
              named == manualMockOrStub # ""
                       /\ ResolveStubModuleName(from, moduleName) = ""
              sibling == ~named /\ resolved \in FilesWithSiblingMock
              modulePath == IF sibling THEN PotentialManualMock(resolved) ELSE resolved
          IN  IF named \/ sibling
              THEN LET inst == Len(s.insts) + 1
                       s1 == [s EXCEPT
                                !.insts = Append(@, NewModule(s, modulePath, Null,
                                                              FALSE, "manual")),
                                !.last.ret = "exec",
                                !.last.inst = inst]
                   IN  ExecModuleS(s1, inst, FALSE, Null, from,
                                   [ctx EXCEPT !.via = "manualMock"], "body")
              ELSE GenerateMockS(s, from, moduleName, ctx)

\* A variant of resetModules that leaves the isolated pair in place.
ResetKeepingIsolated(s) ==
    [s EXCEPT !.mockRegs = Append(@, EmptyObject),
              !.mockRegistry = Len(s.mockRegs) + 1,
              !.modRegs = Append(@, EmptyObject),
              !.moduleRegistry = Len(s.modRegs) + 1,
              !.insts = [i \in DOMAIN s.insts |-> [s.insts[i] EXCEPT !.preReset = TRUE]]]

\* resetModules lines 489-493
ResetModulesS(s) ==
    [s EXCEPT !.isolatedModuleRegistry = Null,
              !.isolatedMockRegistry = Null,
              !.mockRegs = Append(@, EmptyObject),
              !.mockRegistry = Len(s.mockRegs) + 1,
              !.modRegs = Append(@, EmptyObject),
              !.moduleRegistry = Len(s.modRegs) + 1,
              !.insts = [i \in DOMAIN s.insts |-> [s.insts[i] EXCEPT !.preReset = TRUE]]]

\* isolateModules lines 482-484: the scope starts and fn is called
StartScope(s, from, internal) ==
    [s EXCEPT !.modRegs = Append(@, EmptyObject),
              !.isolatedModuleRegistry = Len(s.modRegs) + 1,
              !.mockRegs = Append(@, EmptyObject),
              !.isolatedMockRegistry = Len(s.mockRegs) + 1,
              !.last.ret = "fn",
              !.stack = Append(@,
                  [k |-> "iso", self |-> from, internal |-> internal,
                   path |-> "", inst |-> Null, reg |-> Null,
                   from |-> from, lastPath |-> "", origManual |-> "",
                   ctx |-> NoCtx])]

\* A variant of isolateModules without the guard of lines 477-481.
IsolateUnguarded(s, from, internal) == StartScope(s, from, internal)

\* isolateModules lines 476-484, up to the call of fn
IsolateModulesS(s, from, internal) ==
    IF s.isolatedModuleRegistry # Null \/ s.isolatedMockRegistry # Null
    THEN Raise(s)
    ELSE StartScope(s, from, internal)

\* The running user function returns: the runtime function that called it goes on.
ReturnS(s) ==
    LET f == s.stack[Len(s.stack)]
        popped == [s EXCEPT !.stack = SubSeq(@, 1, Len(@) - 1)]
    IN  IF f.k = "iso"
        THEN \* isolateModules lines 485-486
             [popped EXCEPT !.isolatedModuleRegistry = Null,
                            !.isolatedMockRegistry = Null,
                            !.last.ret = "jestObject",
                            !.last.inst = JestObjectOf(popped.stack),
                            !.insts = [i \in DOMAIN s.insts |->
                                IF s.insts[i].scope = Len(s.stack)
                                THEN [s.insts[i] EXCEPT !.scope = Null,
                                                        !.ended = "returned"]
                                ELSE s.insts[i]]]
        ELSE IF f.k = "factory"
        THEN StoreMock(popped, f.ctx, FactoryResult(f.ctx.val), "factory")
        ELSE \* _execModule lines 729-730, then the caller of _execModule
          AfterExecModule([popped EXCEPT
                              !.isCurrentlyExecutingManualMock = f.origManual,
                              !.currentlyExecutingModulePath = f.lastPath],
                          f.inst, f.ctx)


\* ---------------------------------------------------------------- Spec
\* User code (the test file's callbacks when the stack is empty, else the module
\* body, factory or isolateModules callback on top of the stack) performs one
\* operation at a time, or returns, or throws.
WithinBounds(s) == Len(s.stack) <= MaxDepth
CountCall == calls < MaxCalls /\ calls' = calls + 1

Begin(op, moduleName) == [St EXCEPT !.last = Obs(op, CurFrom, moduleName, "", Null)]

\* An error of the runtime is caught by the caller (k = 0) or further out.
Finish(s) ==
    /\ WithinBounds(s)
    /\ \E k \in 0..Len(s.stack) :
           /\ s.last.ret = "throw" \/ k = 0
           /\ Commit(Unwind(s, k))

\* A variant of _createRequireImplementation that ignores isInternalModule.
RequireOrMockAlways(internal) == "requireModuleOrMock"

\* _createRequireImplementation lines 853-857: what `require` is in a module
CreateRequireImplementation(internal) ==
    IF internal THEN "requireInternalModule" ELSE "requireModuleOrMock"

\* require(moduleName) in a module that is not internal: requireModuleOrMock
Require(moduleName) ==
    /\ CreateRequireImplementation(CurInternal) = "requireModuleOrMock"
    /\ CountCall
    /\ LET r == ShouldMock(CurFrom, moduleName)
           s == Begin("require", moduleName)
       IN  /\ shouldMockModuleCache' = r.smc
           /\ transitiveShouldMock' = r.tsm
           /\ shouldUnmockTransitiveDependenciesCache' = r.sutdc
           /\ Finish(IF r.ret = "throw" THEN Raise(s)
                     ELSE IF r.ret = "true" THEN RequireMockS(s, CurFrom, moduleName)
                     ELSE RequireModuleS(s, CurFrom, moduleName, FALSE, FALSE, NoCtx))
    /\ UNCHANGED <<explicitShouldMock, mockFactories, virtualMocks, shouldAutoMock>>

\* requireInternalModule, by the framework or by the require of an internal module
RequireInternalModule(moduleName) ==
    /\ stack = <<>> \/ CreateRequireImplementation(CurInternal) = "requireInternalModule"
    /\ CountCall
    /\ Finish(RequireModuleS(Begin("requireInternalModule", moduleName),
                             CurFrom, moduleName, TRUE, FALSE, NoCtx))
    /\ UNCHANGED <<policyVars, memoVars>>

\* A variant of requireActual that does not pass isRequireActual.
RequireActualUnforced(moduleName) ==
    /\ ~CurInternal
    /\ CountCall
    /\ Finish(RequireModuleS(Begin("requireActual", moduleName),
                             CurFrom, moduleName, FALSE, FALSE, NoCtx))
    /\ UNCHANGED <<policyVars, memoVars>>

\* require.requireActual(moduleName) / jest.requireActual(moduleName)
RequireActual(moduleName) ==
    /\ ~CurInternal
    /\ CountCall
    /\ Finish(RequireModuleS(Begin("requireActual", moduleName),
                             CurFrom, moduleName, FALSE, TRUE, NoCtx))
    /\ UNCHANGED <<policyVars, memoVars>>

RequireMock(moduleName) ==
    /\ ~CurInternal
    /\ CountCall
    /\ Finish(RequireMockS(Begin("requireMock", moduleName), CurFrom, moduleName))
    /\ UNCHANGED <<policyVars, memoVars>>

\* jest.genMockFromModule(moduleName)
GenMockFromModule(moduleName) ==
    /\ ~CurInternal
    /\ CountCall
    /\ Finish(GenerateMockS(Begin("genMockFromModule", moduleName), CurFrom, moduleName,
                            [NoCtx EXCEPT !.via = "genMockFromModule"]))
    /\ UNCHANGED <<policyVars, memoVars>>

ResetModules ==
    /\ ~CurInternal
    /\ CountCall
    /\ Finish([ResetModulesS(Begin("resetModules", "")) EXCEPT
                   !.last.ret = "jestObject", !.last.inst = JestObjectOf(stack)])
    /\ UNCHANGED <<policyVars, memoVars>>

IsolateModules ==
    /\ ~CurInternal
    /\ CountCall
    /\ Finish(IsolateModulesS(Begin("isolateModules", ""), CurFrom, FALSE))
    /\ UNCHANGED <<policyVars, memoVars>>

Return ==
    /\ stack # <<>>
    /\ Finish(ReturnS(Begin("return", "")))
    /\ UNCHANGED <<policyVars, memoVars, calls>>

\* The running user function throws; the error is caught k functions further out
\* (the test framework catches what leaves the test).
Throw ==
    /\ stack # <<>>
    /\ \E k \in 1..Len(stack) : Commit(Unwind(Raise(Begin("throw", "")), k))
    /\ UNCHANGED <<policyVars, memoVars, calls>>

\* config.automock is false (the default); the modules the test mocks
InternalNames == {"a", "ghost"}
FactoryTargets == {"b"}

Init ==
    /\ InitRuntime
    /\ shouldAutoMock = FALSE

Next ==
    \/ \E moduleName \in LoaderNames : Require(moduleName)
    \/ \E moduleName \in LoaderNames : RequireMock(moduleName)
    \/ \E moduleName \in LoaderNames : GenMockFromModule(moduleName)
    \/ ResetModules
    \/ IsolateModules
    \/ Return
    \/ Throw

Spec == Init /\ [][Next]_vars

\* ---------------------------------------------------------------- SpecReset
\* The loader together with the handle operations that write the policy tables,
\* and the framework's own (internal) modules.
ResetMockTargets == {"b"}
ResetUnmockTargets == {"a"}

NextReset ==
    \/ \E moduleName \in LoaderNames : Require(moduleName)
    \/ \E moduleName \in InternalNames : RequireInternalModule(moduleName)
    \/ ResetModules
    \/ IsolateModules
    \/ Return
    \/ ~CurInternal /\ EnableAutomock /\ PolicyFrame
    \/ \E moduleName \in ResetUnmockTargets :
           ~CurInternal /\ Unmock(CurFrom, moduleName) /\ PolicyFrame
    \/ \E moduleName \in ResetMockTargets, virtual \in BOOLEAN :
           ~CurInternal /\ SetMock(CurFrom, moduleName, 1, virtual) /\ PolicyFrame

SpecReset == Init /\ [][NextReset]_vars

\* ---------------------------------------------------------------- SpecMock
\* The test and its modules configure mocks for one module (factories with and
\* without the virtual option, mock, unmock) and require it, through require
\* and through requireActual.  config.automock is either value.
MockNames == {"b"}
ActualNames == {"b", "ghost", "fs"}
\* the values the factories return (truthy ones)
FactoryValues == {1, 2}

InitMock ==
    /\ InitRuntime
    /\ shouldAutoMock \in BOOLEAN

NextMock ==
    \/ \E moduleName \in MockNames : Require(moduleName)
    \/ \E moduleName \in ActualNames : RequireActual(moduleName)
    \/ ResetModules
    \/ Return
    \/ \E moduleName \in MockNames, mockFactory \in FactoryValues, virtual \in BOOLEAN :
           ~CurInternal /\ SetMock(CurFrom, moduleName, mockFactory, virtual) /\ PolicyFrame
    \/ \E moduleName \in MockNames : ~CurInternal /\ Mock(CurFrom, moduleName) /\ PolicyFrame
    \/ \E moduleName \in MockNames :
           ~CurInternal /\ Unmock(CurFrom, moduleName) /\ PolicyFrame

SpecMock == InitMock /\ [][NextMock]_vars

\* ---------------------------------------------------------------- SpecTeardown
\* The host tears the sandbox down between two callbacks of the test; callbacks
\* that are still pending afterwards go on requiring modules and calling the
\* timer operations of the framework handle.

\* What a sandbox environment looks like after teardown(): the context that
\* runScript needs is gone; the global object and the fake timers are nulled
\* by some environments and kept by others.
TornDownEnvironments ==
    {[global |-> g, fakeTimers |-> f, context |-> FALSE] : g, f \in BOOLEAN}

Teardown ==
    /\ stack = <<>>
    /\ environment.context
    /\ environment' \in TornDownEnvironments
    /\ last' = Obs("teardown", "", "", "", Null)
    /\ UNCHANGED <<registryVars, ambientVars, mockMetaDataCache, policyVars, memoVars,
                   exitCode, errorLog, sourceMapVars, hostVars, stack, calls>>

\* the timer operations of the framework handle, lines 996-1022
TimerOps == {"advanceTimersByTime", "clearAllTimers", "getTimerCount",
             "runAllImmediates", "runAllTicks", "runAllTimers",
             "runOnlyPendingTimers", "runTimersToTime"}

\* _getFakeTimers, lines 981-990
GetFakeTimers(s) ==
    IF ~environment.fakeTimers
    THEN [LogFormattedReferenceError(s, AccessAfterTeardown) EXCEPT !.exitCode = 1]
    ELSE s

\* jest[op](...): _getFakeTimers()[op](...).  The method call on the value
\* _getFakeTimers returned is a TypeError when that value is null.
TimerCall(op) ==
    /\ CountCall
    /\ LET s == GetFakeTimers(Begin(op, ""))
       IN  Finish(IF ~environment.fakeTimers THEN Raise(s)
                  ELSE [s EXCEPT !.last.ret = "timers"])
    /\ UNCHANGED <<policyVars, memoVars>>

NextTeardown ==
    \/ \E moduleName \in LoaderNames : Require(moduleName)
    \/ \E moduleName \in LoaderNames : RequireMock(moduleName)
    \/ Return
    \/ Throw
    \/ Teardown
    \/ \E op \in TimerOps : TimerCall(op)

SpecTeardown == Init /\ [][NextTeardown]_vars

\* ---------------------------------------------------------------- properties
\* C1 (amended): once the body of module m has finished loading into a registry,
\* every later non-internal requireModule of m that is made while that registry
\* is the runtime's main module registry returns the identical module object
\* and does not execute m's body again.
C1_IdentityWhileMain ==
    [][\A r \in DOMAIN modRegs : \A p \in DOMAIN modRegs[r] :
          (/\ insts[modRegs[r][p]].loaded
           /\ last'.rm.path = p
           /\ ~last'.rm.internal
           /\ last'.rm.main = r)
          => (~last'.rm.exec /\ last'.rm.inst = modRegs[r][p])]_vars

\* C1 (as stated): for any module m whose body has finished loading into the
\* main registry, every later requireModule of m with no intervening
\* resetModules returns the identical object and does not execute m again.
C1_IdentityAsStated ==
    [][\A p \in DOMAIN modRegs[moduleRegistry] :
          (/\ insts[modRegs[moduleRegistry][p]].loaded
           /\ last'.rm.path = p
           /\ ~last'.rm.internal
           /\ last'.op # "resetModules")
          => (~last'.rm.exec /\ last'.rm.inst = modRegs[moduleRegistry][p])]_vars

\* a loaded module of the main registry was required again inside an isolation
\* scope and served from the main registry
C1_Witness ==
    /\ last.rm.path # ""
    /\ ~last.rm.internal
    /\ ~last.rm.exec
    /\ last.rm.iso # Null
    /\ insts[last.rm.inst].loaded
    /\ last.rm.path \in DOMAIN modRegs[last.rm.main]
    /\ modRegs[last.rm.main][last.rm.path] = last.rm.inst

\* C2 (amended): if A requires B and B requires A while A's body is still
\* executing, and the registry that holds A is at that moment the main registry
\* (or the isolated registry, A being absent from the main one), the inner
\* require returns A's partial module object: it does not throw and does not
\* start a second execution of A.
C2_CycleWhileRegistered ==
    [][(/\ Len(stack) >= 2
        /\ stack[Len(stack)].k = "body"
        /\ stack[Len(stack)].ctx.via = "require"
        /\ stack[Len(stack) - 1].k = "body"
        /\ stack[Len(stack)].from = stack[Len(stack) - 1].path
        /\ last'.op = "require"
        /\ last'.name = stack[Len(stack) - 1].path
        /\ last'.rm.path = stack[Len(stack) - 1].path
        /\ \/ last'.rm.main = stack[Len(stack) - 1].reg
           \/ /\ last'.rm.iso = stack[Len(stack) - 1].reg
              /\ last'.rm.path \notin DOMAIN modRegs'[last'.rm.main])
       => (/\ last'.ret = "exports"
           /\ last'.inst = stack[Len(stack) - 1].inst
           /\ ~insts'[last'.inst].loaded
           /\ ~last'.rm.exec
           /\ stack' = stack)]_vars

\* C2 (as stated): if A requires B and B requires A while A's body is still
\* executing, the inner require returns A's partial module object; it neither
\* throws nor starts a second execution of A.
C2_CycleAsStated ==
    [][(/\ Len(stack) >= 2
        /\ stack[Len(stack)].k = "body"
        /\ stack[Len(stack)].ctx.via = "require"
        /\ stack[Len(stack) - 1].k = "body"
        /\ stack[Len(stack)].from = stack[Len(stack) - 1].path
        /\ last'.op = "require"
        /\ last'.name = stack[Len(stack) - 1].path)
       => (/\ last'.ret = "exports"
           /\ last'.inst = stack[Len(stack) - 1].inst
           /\ stack' = stack)]_vars

\* B, required by A, has just required A and received the module object whose
\* body is still running below it on the stack
C2_Witness ==
    /\ Len(stack) >= 2
    /\ stack[Len(stack)].k = "body"
    /\ stack[Len(stack)].ctx.via = "require"
    /\ stack[Len(stack) - 1].k = "body"
    /\ stack[Len(stack)].from = stack[Len(stack) - 1].path
    /\ last.op = "require"
    /\ last.from = stack[Len(stack)].path
    /\ last.name = stack[Len(stack) - 1].path
    /\ last.ret = "exports"
    /\ last.inst = stack[Len(stack) - 1].inst
    /\ ~insts[last.inst].loaded

\* C3 (amended): a module whose body was first executed while the isolated
\* registries set up by isolateModules were in place is never present in the
\* main module registry, during the scope or after it.
C3_IsolatedStaysOutOfMain ==
    \A p \in DOMAIN modRegs[moduleRegistry] :
        ~insts[modRegs[moduleRegistry][p]].active

\* C3 (as stated): whatever the callback does, a module whose body was first
\* executed inside isolateModules(f) is not present in the main module registry
\* after isolateModules has returned.
C3_IsolationAsStated ==
    \A p \in DOMAIN modRegs[moduleRegistry] :
        insts[modRegs[moduleRegistry][p]].ended # "returned"

\* a module was loaded into the isolated registry, the scope has returned, and
\* the registry that was the main one throughout is still the main one
C3_Witness ==
    /\ \E i \in DOMAIN insts :
           /\ insts[i].active
           /\ insts[i].loaded
           /\ insts[i].ended = "returned"
           /\ ~insts[i].preReset
    /\ isolatedModuleRegistry = Null
    /\ stack = <<>>

\* C4 (as stated): wherever resetModules is called, a later non-internal require
\* never returns a module object that existed before the reset: the module's
\* body is executed again.
C4_ResetReexecutes ==
    (/\ last.rm.path # ""
     /\ ~last.rm.internal
     /\ ~last.rm.exec)
    => ~insts[last.rm.inst].preReset

C6_PrecedenceByRules ==
    [][last'.op = "shouldMock" =>
          LET from == last'.from
              name == last'.name
              id == GetModuleID(virtualMocks, from, name)
              cur == GetModuleID(virtualMocks, from, "")
              str(b) == IF b THEN "true" ELSE "false"
              transitive ==
                  \/ cur \in DOMAIN transitiveShouldMock /\ ~transitiveShouldMock[cur]
                  \/ /\ IncludesNodeModules(from)
                     /\ IncludesNodeModules(ResolveModule(from, name))
                     /\ \/ UnmockListTest(from)
                        \/ cur \in DOMAIN explicitShouldMock /\ ~explicitShouldMock[cur]
          IN  last'.ret =
                  IF GetModulePath(from, name) \in virtualMocks THEN "true"
                  ELSE IF id \in DOMAIN explicitShouldMock
                  THEN str(explicitShouldMock[id])
                  ELSE IF IsCoreModule(name) THEN "false"
                  ELSE IF <<from, id>> \in shouldUnmockTransitiveDependenciesCache
                  THEN "false"
                  ELSE IF ~shouldAutoMock THEN "false"
                  ELSE IF id \in DOMAIN shouldMockModuleCache
                  THEN str(shouldMockModuleCache[id])
                  ELSE IF ~Resolvable(name)
                  THEN (IF GetMockModule(from, name) # "" THEN "true" ELSE "throw")
                  ELSE IF UnmockListTest(ResolveModule(from, name)) THEN "false"
                  ELSE IF transitive THEN "false"
                  ELSE "true"]_vars

\* C6 (as stated): the boolean returned by shouldMock is that of the first
\* applicable rule in the order virtual mock (true) > explicit entry (its value)
\* > core module (false) > transitive-unmock memo (false) > auto-mock off
\* (false) > unmock regex matches the resolved path (false) > default (true).
C6_PrecedenceAsStated ==
    [][(last'.op = "shouldMock" /\ last'.ret # "throw") =>
          LET from == last'.from
              name == last'.name
              id == GetModuleID(virtualMocks, from, name)
              str(b) == IF b THEN "true" ELSE "false"
          IN  last'.ret =
                  IF GetModulePath(from, name) \in virtualMocks THEN "true"
                  ELSE IF id \in DOMAIN explicitShouldMock
                  THEN str(explicitShouldMock[id])
                  ELSE IF IsCoreModule(name) THEN "false"
                  ELSE IF <<from, id>> \in shouldUnmockTransitiveDependenciesCache
                  THEN "false"
                  ELSE IF ~shouldAutoMock THEN "false"
                  ELSE IF Resolvable(name) /\ UnmockListTest(ResolveModule(from, name))
                  THEN "false"
                  ELSE "true"]_vars

\* with auto-mock on, a request that no table mentions has been decided false
\* by a rule below the memoized decision
C6_Witness ==
    /\ last.op = "shouldMock"
    /\ last.ret = "false"
    /\ shouldAutoMock
    /\ last.name \notin virtualMocks
    /\ last.name \notin DOMAIN explicitShouldMock
    /\ ~IsCoreModule(last.name)
    /\ last.name \notin DOMAIN shouldMockModuleCache
    /\ ~UnmockListTest(last.name)

C8_GenerationAddsNothing ==
    last.gen.done =>
        /\ moduleRegistry = last.gen.orig
        /\ modRegs[last.gen.orig] = last.gen.snap

\* C8 (as stated): after an auto-mock for m has been generated, m is not
\* present in the main module registry that was current before generation
\* started, and that registry is again the runtime's main registry.
C8_PurityAsStated ==
    last.gen.done =>
        /\ moduleRegistry = last.gen.orig
        /\ last.gen.path \notin DOMAIN modRegs[last.gen.orig]

\* a generation has just completed that executed m's body in a temporary
\* registry, where m required a further module, while the registry that was
\* current before was not empty
C8_Witness ==
    /\ last.gen.done
    /\ last.gen.snap # EmptyObject
    /\ \E r \in DOMAIN modRegs :
           /\ r # last.gen.orig
           /\ last.gen.path \in DOMAIN modRegs[r]
           /\ \E p \in DOMAIN modRegs[r] : p # last.gen.path

C10_ScopeEndNullsRegistries ==
    InnermostIso(stack) = Null =>
        (isolatedModuleRegistry = Null /\ isolatedMockRegistry = Null)

\* C11 (amended): after setMock(name, value) or mock(name, factory), the next
\* require(name) from the same module calls the registered factory and returns
\* its result, provided neither the isolated mock registry (when one is in
\* place) nor the main mock registry already holds a mock for the module; when
\* one does, that cached mock is returned and the factory is not called.
C11_FactoryUnlessCached ==
    [][/\ (/\ last.op = "setMock"
           /\ last'.op = "require"
           /\ last'.name = last.name
           /\ last'.from = last.from)
          => LET id == GetModuleID(virtualMocks, last.from, last.name)
                 iso == isolatedMockRegistry
                 hit == IF iso # Null /\ HoldsMock(St, iso, id) THEN iso
                        ELSE IF HoldsMock(St, mockRegistry, id) THEN mockRegistry
                        ELSE Null
             IN  IF hit # Null
                 THEN /\ last'.ret = "cachedMock"
                      /\ last'.val = mockRegs[hit][id].val
                      /\ last'.inst = mockRegs[hit][id].inst
                      /\ stack' = stack
                 ELSE /\ last'.ret = "factoryCall"
                      /\ Len(stack') = Len(stack) + 1
                      /\ stack'[Len(stack')].k = "factory"
                      /\ stack'[Len(stack')].ctx.val = mockFactories[id]
       /\ (/\ stack # <<>>
           /\ stack[Len(stack)].k = "factory"
           /\ last'.op = "return")
          => (/\ last'.ret = "factory"
              /\ last'.val = stack[Len(stack)].ctx.val)]_vars

\* C11 (as stated): after setMock(name, value) or mock(name, factory), the next
\* require(name) from the same module returns value (the factory's result),
\* whatever mock, setMock and require operations preceded the call.
C11_FactoryAsStated ==
    [][(/\ last.op = "setMock"
        /\ last'.op = "require"
        /\ last'.name = last.name
        /\ last'.from = last.from)
       => LET id == GetModuleID(virtualMocks, last.from, last.name)
          IN  \/ /\ last'.ret = "factoryCall"
                 /\ stack'[Len(stack')].ctx.val = mockFactories[id]
              \/ /\ last'.ret = "cachedMock"
                 /\ last'.val = mockFactories[id]]_vars

\* the factory registered last has just returned its value to a require, after
\* a mock of the same module made by an earlier factory (it sits in a mock
\* registry that resetModules has replaced)
C11_Witness ==
    /\ last.op = "return"
    /\ last.ret = "factory"
    /\ \E id \in DOMAIN mockFactories :
           /\ mockFactories[id] = last.val
           /\ id \in DOMAIN mockRegs[mockRegistry]
           /\ mockRegs[mockRegistry][id] = FactoryResult(last.val)
           /\ \E r \in DOMAIN mockRegs :
                  /\ r # mockRegistry
                  /\ id \in DOMAIN mockRegs[r]
                  /\ mockRegs[r][id].kind = "factory"
                  /\ mockRegs[r][id].val # last.val

\* C12 (amended): after unmock(name) (or dontMock(name)), the next
\* require(name) from the same module is answered by the real-module path (the
\* real file's module object, the core module, or the resolver's error when
\* there is no real file), for every earlier sequence of mock / setMock calls
\* on that name, including ones that supplied a factory, unless the path of
\* name has been marked virtual: a virtual path stays mocked after unmock.
C12_UnmockWinsUnlessVirtual ==
    [][(/\ last.op = "unmock"
        /\ last'.op = "require"
        /\ last'.name = last.name
        /\ last'.from = last.from)
       => IF GetModulePath(last.from, last.name) \in virtualMocks
          THEN \* requireMock answers; a requireModule call, if any, is the
               \* one of an auto-mock generation in its temporary registry
               /\ last'.ret \notin {"exports", "core"}
               /\ last'.rm.path # "" => last'.rm.main # moduleRegistry
          ELSE IF IsCoreModule(last.name) THEN last'.ret = "core"
          ELSE IF ~Resolvable(last.name) THEN last'.ret = "throw"
          ELSE /\ last'.ret \in {"exports", "exec"}
               /\ last'.rm.path = ResolveModule(last.from, last.name)
               /\ insts'[last'.inst].path = ResolveModule(last.from, last.name)
               /\ insts'[last'.inst].kind = "real"
               /\ mockRegs' = mockRegs]_vars

\* C12 (as stated): after unmock(name), the next require(name) from the same
\* module returns the real module's exports, for every earlier sequence of mock
\* / setMock calls on that name, including ones that supplied a factory or the
\* virtual option.
C12_UnmockWinsAsStated ==
    [][(/\ last.op = "unmock"
        /\ last'.op = "require"
        /\ last'.name = last.name
        /\ last'.from = last.from
        /\ Resolvable(last.name))
       => (/\ last'.ret \in {"exports", "exec"}
           /\ last'.rm.path = ResolveModule(last.from, last.name))]_vars

\* a require has just been answered with the real module although a factory is
\* registered for it, a mock of it made by that factory is cached in the mock
\* registry, and auto-mock is on: the module is explicitly unmocked
C12_Witness ==
    /\ last.op = "require"
    /\ last.ret \in {"exports", "exec"}
    /\ shouldAutoMock
    /\ LET id == GetModuleID(virtualMocks, last.from, last.name)
       IN  /\ id \in DOMAIN explicitShouldMock
           /\ ~explicitShouldMock[id]
           /\ id \in DOMAIN mockFactories
           /\ id \in DOMAIN mockRegs[mockRegistry]
           /\ mockRegs[mockRegistry][id].kind = "factory"
           /\ GetModulePath(last.from, last.name) \notin virtualMocks
           /\ insts[last.inst].path = ResolveModule(last.from, last.name)

\* C13 (as stated): when the sandbox global has been disposed, requireModule of
\* a module that is not yet loaded does not throw, does not execute the
\* module's body, logs a formatted reference error and leaves the process exit
\* code non-zero.
C13_DisposedGlobalReported ==
    [][(/\ ~environment.global
        /\ last'.torn = "disposed")
       => (/\ last'.ret # "throw"
           /\ stack' = stack
           /\ Len(errorLog') > Len(errorLog)
           /\ exitCode' # 0)]_vars

\* C14: when runScript returns null, _execModule does not call the wrapper (no
\* body starts), logs the reference error about importing after teardown, sets
\* the process exit code to 1 and returns: its caller gets no error.
C14_NullScriptReported ==
    [][last'.torn = "runScriptNull"
       => (/\ stack' = stack
           /\ last'.ret # "throw"
           /\ errorLog' = Append(errorLog, ImportAfterTeardown)
           /\ exitCode' = 1)]_vars

\* a require made after teardown, with the global object still there, has
\* returned the exports of a module whose body never ran; the error is logged
\* and the exit code is 1
C14_Witness ==
    /\ last.op = "require"
    /\ last.torn = "runScriptNull"
    /\ last.ret = "exports"
    /\ environment.global
    /\ ~environment.context
    /\ insts[last.inst].loaded
    /\ stack = <<>>
    /\ exitCode = 1
    /\ errorLog # <<>>
    /\ errorLog[Len(errorLog)] = ImportAfterTeardown

\* C15 (as stated): when the sandbox's fake timers are no longer present, each
\* of advanceTimersByTime, runAllTimers, runAllTicks, runAllImmediates,
\* runOnlyPendingTimers, clearAllTimers and getTimerCount logs the reference
\* error about access after teardown and sets the process exit code to 1, and
\* nothing is thrown to the caller.
C15_TimerCallsNeverThrow ==
    [][(/\ last'.op \in TimerOps \ {"runTimersToTime"}
        /\ ~environment.fakeTimers)
       => (/\ errorLog' = Append(errorLog, AccessAfterTeardown)
           /\ exitCode' = 1
           /\ last'.ret # "throw")]_vars

\* C16 (as stated): after every call of _execModule, whether the body returned,
\* the call was cut short because of teardown, or an error of the body
\* propagated, the current-executing module path and the manual-mock marker
\* equal the values they had before the call.
C16_AmbientRestored ==
    [][/\ LET ended == {n \in (Len(stack') + 1)..Len(stack) : stack[n].k = "body"}
          IN  (Len(stack') < Len(stack) /\ ended # {})
              => LET n == CHOOSE m \in ended : \A o \in ended : m <= o
                 IN  /\ currentlyExecutingModulePath' = stack[n].lastPath
                     /\ isCurrentlyExecutingManualMock' = stack[n].origManual
       /\ last'.torn # ""
          => /\ currentlyExecutingModulePath' = currentlyExecutingModulePath
             /\ isCurrentlyExecutingManualMock' = isCurrentlyExecutingManualMock]_vars

\* C17 (as stated): on every path that executes a module body (a real module
\* in the main, isolated or internal registry, a manual mock executed for the
\* mock registry), the module is in its owning registry from before its body
\* starts, so that a require of it made during its execution finds it.
C17_InsertedBeforeBody ==
    \A n \in 1..Len(stack) :
        stack[n].k = "body" =>
            IF stack[n].ctx.via = "manualMock"
            THEN /\ stack[n].ctx.id \in DOMAIN mockRegs[stack[n].ctx.mockReg]
                 /\ mockRegs[stack[n].ctx.mockReg][stack[n].ctx.id].inst = stack[n].inst
            ELSE /\ stack[n].path \in DOMAIN modRegs[stack[n].reg]
                 /\ modRegs[stack[n].reg][stack[n].path] = stack[n].inst

\* C18: a requireModule call marked internal is served from, and writes, only
\* the internal registry; any other call uses the isolated registry exactly
\* when one is in place (an isolation scope is active) and the main registry
\* does not hold the resolved path, and the main registry in every other case.
C18_LayerSelection ==
    [][last'.rm.path # "" =>
          LET p == last'.rm.path
              main == last'.rm.main
              iso == last'.rm.iso
              before(r) == IF r \in DOMAIN modRegs THEN modRegs[r] ELSE EmptyObject
              layer == IF last'.rm.internal THEN internalModuleRegistry
                       ELSE IF iso # Null /\ p \notin DOMAIN before(main) THEN iso
                       ELSE main
          IN  /\ p \in DOMAIN modRegs'[layer]
              /\ modRegs'[layer][p] = last'.rm.inst
              /\ p \in DOMAIN before(layer)
                     => (modRegs'[layer] = before(layer) /\ ~last'.rm.exec)
              /\ \A r \in DOMAIN modRegs' : r # layer => modRegs'[r] = before(r)]_vars

\* inside an isolation scope a module has just been loaded into the isolated
\* registry, while the internal registry holds a module of the same path and
\* the main registry holds another module but not this one
C18_Witness ==
    /\ last.rm.path # ""
    /\ ~last.rm.internal
    /\ last.rm.exec
    /\ last.rm.iso # Null
    /\ last.rm.iso = isolatedModuleRegistry
    /\ last.rm.main = moduleRegistry
    /\ last.rm.path \in DOMAIN modRegs[isolatedModuleRegistry]
    /\ last.rm.path \notin DOMAIN modRegs[moduleRegistry]
    /\ modRegs[moduleRegistry] # EmptyObject
    /\ last.rm.path \in DOMAIN modRegs[internalModuleRegistry]
    /\ modRegs[internalModuleRegistry][last.rm.path] # last.rm.inst

\* C19: no operation removes or replaces an entry of the internal registry;
\* requireInternalModule returns the real file's module from the internal
\* registry (or the core module, or the resolver's error), never a mock or a
\* manual-mock file, and touches no mock registry; and every require made by
\* the code of an internal module is a requireInternalModule call, which does
\* not consult _shouldMock.
C19_InternalLayer ==
    [][/\ internalModuleRegistry' = internalModuleRegistry
       /\ \A p \in DOMAIN modRegs[internalModuleRegistry] :
              /\ p \in DOMAIN modRegs'[internalModuleRegistry]
              /\ modRegs'[internalModuleRegistry][p] = modRegs[internalModuleRegistry][p]
       /\ last'.op = "requireInternalModule"
          => /\ mockRegs' = mockRegs
             /\ UNCHANGED <<mockRegistry, isolatedMockRegistry, mockMetaDataCache>>
             /\ IF IsCoreModule(last'.name) THEN last'.ret = "core"
                ELSE IF ~Resolvable(last'.name) THEN last'.ret = "throw"
                ELSE /\ last'.ret \in {"exports", "exec"}
                     /\ last'.rm.internal
                     /\ last'.rm.path = ResolveModule(last'.from, last'.name)
                     /\ modRegs'[internalModuleRegistry][last'.rm.path] = last'.inst
                     /\ insts'[last'.inst].path = last'.rm.path
                     /\ insts'[last'.inst].kind = "real"
       /\ (/\ stack # <<>>
           /\ stack[Len(stack)].internal
           /\ last'.op \in {"require", "requireInternalModule"})
          => /\ last'.op = "requireInternalModule"
             /\ UNCHANGED memoVars]_vars

\* with auto-mock on, a factory registered and a mock of the same file cached
\* in the mock registry, the body of an internal module has just made a require
\* and got the real module of the internal registry
C19_Witness ==
    /\ last.op = "requireInternalModule"
    /\ last.ret \in {"exports", "exec"}
    /\ stack # <<>>
    /\ stack[Len(stack)].internal
    /\ last.from = stack[Len(stack)].path
    /\ shouldAutoMock
    /\ mockFactories # EmptyObject
    /\ insts[last.inst].internal
    /\ modRegs[internalModuleRegistry][last.rm.path] = last.inst
    /\ GetModuleID(virtualMocks, last.from, last.name) \in DOMAIN mockRegs[mockRegistry]

\* C20: whatever the policy tables say (auto-mock on, an explicit mock entry, a
\* registered factory, a virtual mark, a manual mock next to the file or under
\* the request's name), requireActual(from, name) returns the module object of
\* the real resolved file, or the core module, and fails with the resolver's
\* error when there is no real file; it returns no manual mock, factory result
\* or auto-mock, calls no factory and writes no mock registry.
C20_ActualIsReal ==
    [][last'.op = "requireActual" =>
          /\ mockRegs' = mockRegs
          /\ UNCHANGED <<mockRegistry, isolatedMockRegistry, mockMetaDataCache,
                         policyVars, memoVars>>
          /\ IF IsCoreModule(last'.name) THEN last'.ret = "core"
             ELSE IF ~Resolvable(last'.name) THEN last'.ret = "throw"
             ELSE /\ last'.ret \in {"exports", "exec"}
                  /\ last'.rm.path = ResolveModule(last'.from, last'.name)
                  /\ insts'[last'.inst].path = last'.rm.path
                  /\ insts'[last'.inst].kind = "real"
                  /\ last'.ret = "exec"
                         => (/\ stack'[Len(stack')].k = "body"
                             /\ stack'[Len(stack')].path = last'.rm.path)]_vars

\* requireActual has just returned the real module of a file for which
\* auto-mock is on, an explicit mock entry, a factory and a virtual mark are
\* set, a manual mock file exists, and a mock is cached in the mock registry
C20_Witness ==
    /\ last.op = "requireActual"
    /\ last.ret \in {"exports", "exec"}
    /\ shouldAutoMock
    /\ LET id == GetModuleID(virtualMocks, last.from, last.name)
       IN  /\ id \in DOMAIN explicitShouldMock
           /\ explicitShouldMock[id]
           /\ id \in DOMAIN mockFactories
           /\ id \in DOMAIN mockRegs[mockRegistry]
    /\ GetModulePath(last.from, last.name) \in virtualMocks
    /\ ResolveModule(last.from, last.name) \in FilesWithSiblingMock
    /\ insts[last.inst].path = ResolveModule(last.from, last.name)

\* ---------------------------------------------------------------- SpecFactory
\* The test and its modules register factories for one module, among them
\* factories that return a falsy value, and require the module through require
\* and requireMock, inside and outside isolation scopes and across resets.
FactoryNames == {"b"}
\* the values the factories return: a falsy one and a truthy one
MemoValues == FalsyValues \cup {1}

NextFactory ==
    \/ \E moduleName \in FactoryNames : Require(moduleName)
    \/ \E moduleName \in FactoryNames : RequireMock(moduleName)
    \/ ResetModules
    \/ IsolateModules
    \/ Return
    \/ \E moduleName \in FactoryNames, mockFactory \in MemoValues :
           SetMock(CurFrom, moduleName, mockFactory, FALSE) /\ PolicyFrame

SpecFactory == Init /\ [][NextFactory]_vars

\* C21: between two resets and within one mock registry a registered factory is
\* called at most once per module id: a factory is never called for an id whose
\* result an earlier factory call already stored in the mock registry in use,
\* whatever value that call returned.
C21_FactoryOnce ==
    [][last'.ret = "factoryCall"
       => LET f == stack'[Len(stack')]
          IN  f.ctx.id \notin DOMAIN mockRegs[f.ctx.mockReg]]_vars

\* ---------------------------------------------------------------- SpecDeep
\* config.automock is true.  The test and its modules deep-unmock one module
\* and require it and its dependencies (user files and vendored ones, one of
\* them matching unmockedModulePathPatterns), before and after the deepUnmock
\* call, through every loader entry point.
DeepTargets == {"a"}
DeepNames == {"a", "b", "nm/lib", "nm/pad"}
DeepMockNames == {"b"}

InitDeep ==
    /\ InitRuntime
    /\ shouldAutoMock = TRUE

NextDeep ==
    \/ \E moduleName \in DeepNames : Require(moduleName)
    \/ \E moduleName \in DeepMockNames : RequireMock(moduleName)
    \/ ResetModules
    \/ IsolateModules
    \/ Return
    \/ \E moduleName \in DeepTargets : DeepUnmock(CurFrom, moduleName) /\ PolicyFrame

SpecDeep == InitDeep /\ [][NextDeep]_vars

\* C22 (amended): requireModule, requireMock, resetModules, isolateModules and
\* the return of a module body leave explicitShouldMock, mockFactories,
\* virtualMocks and transitiveShouldMock unchanged; requireModuleOrMock leaves
\* the first three unchanged and writes transitiveShouldMock in one way only,
\* by recording false for the id of the module it was asked for.
C22_LoaderWritesOnlyTransitive ==
    [][last'.op \in {"require", "requireMock", "requireActual", "requireInternalModule",
                     "genMockFromModule", "resetModules", "isolateModules", "return"}
       => /\ explicitShouldMock' = explicitShouldMock
          /\ mockFactories' = mockFactories
          /\ virtualMocks' = virtualMocks
          /\ \/ transitiveShouldMock' = transitiveShouldMock
             \/ /\ last'.op = "require"
                /\ transitiveShouldMock' =
                       Put(transitiveShouldMock,
                           GetModuleID(virtualMocks, last'.from, last'.name), FALSE)]_vars

\* C22 (as stated): requireModule, requireMock, requireModuleOrMock,
\* resetModules and isolateModules leave explicitShouldMock, mockFactories,
\* virtualMocks and transitiveShouldMock unchanged.
C22_SingleWriter ==
    [][last'.op \in {"require", "requireMock", "requireActual", "requireInternalModule",
                     "genMockFromModule", "resetModules", "isolateModules", "return"}
       => UNCHANGED <<explicitShouldMock, mockFactories, virtualMocks,
                      transitiveShouldMock>>]_vars

\* a require has just recorded the module it was asked for as transitively
\* unmocked: no handle operation wrote that entry (deepUnmock writes the
\* explicit table too)
C22_Witness ==
    /\ last.op = "require"
    /\ LET id == GetModuleID(virtualMocks, last.from, last.name)
       IN  /\ id \in DOMAIN transitiveShouldMock
           /\ id \notin DOMAIN explicitShouldMock
           /\ <<last.from, id>> \in shouldUnmockTransitiveDependenciesCache

\* C25 (amended): deepUnmock(m) records m as explicitly and as transitively
\* unmocked.  With auto-mock on, a require made by a module recorded as
\* transitively unmocked, of a resolvable module with no explicit and no
\* virtual entry, yields the real module unless an earlier require memoized
\* the decision to mock it (and this pair of requirer and id was not decided
\* before), in which case the mock is served.  A dependency decided by the rule
\* is recorded as transitively unmocked in turn; a core module, a module
\* matching unmockedModulePathPatterns and a memoized one are not recorded.
C25_DeepUnlessMemoized ==
    [][/\ last'.op = "deepUnmock"
          => LET id == GetModuleID(virtualMocks, last'.from, last'.name)
             IN  /\ explicitShouldMock' = Put(explicitShouldMock, id, FALSE)
                 /\ transitiveShouldMock' = Put(transitiveShouldMock, id, FALSE)
       /\ LET from == last'.from
              id == GetModuleID(virtualMocks, from, last'.name)
              cur == GetModuleID(virtualMocks, from, "")
              key == <<from, id>>
              core == IsCoreModule(last'.name)
              decided == key \in shouldUnmockTransitiveDependenciesCache
              memo == id \in DOMAIN shouldMockModuleCache
              real == \/ last'.ret \in {"exports", "core"}
                      \/ /\ last'.ret = "exec"
                         /\ Len(stack') = Len(stack) + 1
                         /\ stack'[Len(stack')].ctx.via = "require"
                         /\ insts'[stack'[Len(stack')].inst].kind = "real"
          IN  (/\ last'.op = "require"
               /\ shouldAutoMock
               /\ cur \in DOMAIN transitiveShouldMock
               /\ transitiveShouldMock[cur] = FALSE
               /\ id \notin DOMAIN explicitShouldMock
               /\ GetModulePath(from, last'.name) \notin virtualMocks
               /\ Resolvable(last'.name))
              => IF ~core /\ ~decided /\ memo /\ shouldMockModuleCache[id]
                 THEN ~real
                 ELSE /\ real
                      /\ (/\ ~core /\ ~decided /\ ~memo
                          /\ ~UnmockListTest(ResolveModule(from, last'.name)))
                         => /\ id \in DOMAIN transitiveShouldMock'
                            /\ transitiveShouldMock'[id] = FALSE
                            /\ key \in shouldUnmockTransitiveDependenciesCache']_vars

\* C25 (as stated): with auto-mock on, after deepUnmock(m), every module
\* required by m, and transitively by the modules m requires, that has no
\* explicit and no virtual entry is served as the real module, whatever
\* requires happened earlier.
C25_DeepAsStated ==
    [][(/\ last'.op = "require"
        /\ shouldAutoMock
        /\ GetModuleID(virtualMocks, last'.from, last'.name)
               \notin DOMAIN explicitShouldMock
        /\ GetModulePath(last'.from, last'.name) \notin virtualMocks
        /\ \E i \in 1..Len(stack) :
               /\ stack[i].path \in DOMAIN explicitShouldMock
               /\ explicitShouldMock[stack[i].path] = FALSE
               /\ stack[i].path \in DOMAIN transitiveShouldMock
               /\ \A j \in i..Len(stack) :
                      /\ stack[j].k = "body"
                      /\ stack[j].ctx.via = "require"
                      /\ insts[stack[j].inst].kind = "real"
                      /\ j > i => stack[j].from = stack[j - 1].path)
       => \/ last'.ret \in {"exports", "core"}
          \/ /\ last'.ret = "exec"
             /\ stack'[Len(stack')].ctx.via = "require"
             /\ insts'[stack'[Len(stack')].inst].kind = "real"]_vars

\* the deep-unmocked module required a dependency, which required a third
\* module: both are served real and recorded as transitively unmocked, neither
\* by name in the explicit table
C25_Witness ==
    /\ last.op = "require"
    /\ last.ret = "exec"
    /\ shouldAutoMock
    /\ Len(stack) = 3
    /\ stack[1].path \in DeepTargets
    /\ stack[1].path \in DOMAIN explicitShouldMock
    /\ \A j \in 1..3 :
           /\ stack[j].k = "body"
           /\ stack[j].ctx.via = "require"
           /\ insts[stack[j].inst].kind = "real"
    /\ \A j \in 2..3 :
           /\ stack[j].from = stack[j - 1].path
           /\ stack[j].path \notin DOMAIN explicitShouldMock
           /\ stack[j].path \in DOMAIN transitiveShouldMock
           /\ ~UnmockListTest(stack[j].path)
    /\ stack[2].path # stack[3].path

\* ---------------------------------------------------------------- SpecParent
\* The code of a module reads its own module.parent, before and after the
\* registries are replaced under it.

\* The getter installed at lines 656-667: `moduleRegistry` is the registry
\* object _execModule was given (the one requireModule chose at lines 328-336,
\* or requireMock's mock registry for a manual mock), `from` the requiring path.
Parent(f) ==
    LET key == f.from
    IN  IF f.reg # Null
        THEN IF key \in DOMAIN modRegs[f.reg] THEN modRegs[f.reg][key] ELSE Null
        ELSE IF key \in DOMAIN mockRegs[f.ctx.mockReg]
                /\ Truthy(mockRegs[f.ctx.mockReg][key])
             THEN mockRegs[f.ctx.mockReg][key].inst
             ELSE Null

\* the running module body evaluates module.parent
ReadParent ==
    /\ stack # <<>>
    /\ stack[Len(stack)].k = "body"
    /\ last' = Obs("parent", CurFrom, "", "parent", Parent(stack[Len(stack)]))
    /\ UNCHANGED <<policyVars, memoVars, loaderVars>>

NextParent ==
    \/ \E moduleName \in LoaderNames : Require(moduleName)
    \/ ResetModules
    \/ IsolateModules
    \/ Return
    \/ ReadParent

SpecParent == Init /\ [][NextParent]_vars

\* C23: module.parent reads the entry for the requiring path in the registry
\* that is current at read time (the one a require of that path would use); in
\* particular it reads null once the registry the module was loaded into has
\* been replaced.
C23_ParentCurrent ==
    [][last'.op = "parent"
       => LET f == stack[Len(stack)]
              cur == SelectRegistry(St, f.from, f.internal)
          IN  /\ last'.inst = IF f.from \in DOMAIN modRegs[cur]
                              THEN modRegs[cur][f.from] ELSE Null
              /\ f.reg \notin {moduleRegistry, isolatedModuleRegistry,
                               internalModuleRegistry}
                 => last'.inst = Null]_vars

\* C24: while an auto-mock is being generated, the real module executed to
\* obtain the metadata, and every module executed on its behalf, is registered
\* neither in the isolated module registry in place nor in the main registry
\* that was current before the generation started.
C24_MetadataIsolated ==
    [][LET top == stack'[Len(stack')]
           gens == {n \in 1..Len(stack') :
                        /\ stack'[n].k = "body"
                        /\ stack'[n].ctx.via \in {"requireMock", "genMockFromModule"}}
       IN  (/\ Len(stack') = Len(stack) + 1
            /\ top.k = "body"
            /\ top.reg # Null
            /\ gens # {})
           => /\ top.reg # isolatedModuleRegistry'
              /\ \A n \in gens : top.reg # stack'[n].ctx.origMod]_vars

\* ---------------------------------------------------------------- SpecManual
\* The test and its modules call requireModule through require (auto-mock is
\* off, so nothing is mocked by policy), requireActual and the framework's
\* internal require, for requests that have a manual mock: one with no file,
\* one known to the haste map, one a host built-in.
ManualNames == {"ghost", "haste", "os"}
ManualInternalNames == {"ghost"}

NextManual ==
    \/ \E moduleName \in ManualNames : Require(moduleName)
    \/ \E moduleName \in ManualNames : RequireActual(moduleName)
    \/ \E moduleName \in ManualInternalNames : RequireInternalModule(moduleName)
    \/ Return
    \/ Throw
    \/ \E moduleName \in ManualNames : Unmock(CurFrom, moduleName) /\ PolicyFrame

SpecManual == Init /\ [][NextManual]_vars

\* C26 (amended): requireModule takes the manual mock's file in place of the
\* real file exactly when the request is not a host built-in, has a manual
\* mock, is not known to the haste map as a module, is not internal, is not
\* made through requireActual, the path recorded as currently executing is not
\* that manual mock, and explicitShouldMock for the id is not false.  A
\* built-in is served as the built-in; in every other case the request is
\* resolved to the real file, or the resolver's error is thrown.
C26_ManualMockSubstitution ==
    [][(/\ last'.op \in {"require", "requireActual", "requireInternalModule"}
        /\ last'.op = "require" => ShouldMock(last'.from, last'.name).ret = "false")
       => LET from == last'.from
              name == last'.name
              id == GetModuleID(virtualMocks, from, name)
              manualMock == GetMockModule(from, name)
              substitute ==
                  /\ last'.op = "require"
                  /\ GetModule(name) = ""
                  /\ manualMock # ""
                  /\ manualMock # isCurrentlyExecutingManualMock
                  /\ ~(id \in DOMAIN explicitShouldMock /\ ~explicitShouldMock[id])
          IN  IF IsCoreModule(name)
              THEN last'.ret = "core" /\ last'.rm = NoCall
              ELSE IF substitute
              THEN last'.rm.path = manualMock
              ELSE IF Resolvable(name)
              THEN last'.rm.path = ResolveModule(from, name)
              ELSE last'.ret = "throw" /\ last'.rm = NoCall]_vars

\* C26 (as stated): requireModule takes the manual mock's file in place of the
\* real file exactly when the request has a manual mock, is not internal, the
\* path recorded as currently executing is not that manual mock, and
\* explicitShouldMock for the id is not false.
C26_SubstitutionAsStated ==
    [][(/\ last'.op \in {"require", "requireActual", "requireInternalModule"}
        /\ last'.op = "require" => ShouldMock(last'.from, last'.name).ret = "false")
       => LET id == GetModuleID(virtualMocks, last'.from, last'.name)
              manualMock == GetMockModule(last'.from, last'.name)
          IN  (/\ manualMock # ""
               /\ last'.op # "requireInternalModule"
               /\ manualMock # isCurrentlyExecutingManualMock
               /\ ~(id \in DOMAIN explicitShouldMock /\ ~explicitShouldMock[id]))
              <=> last'.rm.path = manualMock]_vars

\* the require of a module body has just been given the manual mock's file in
\* place of the real one, and the manual mock's body is now executing
C26_Witness ==
    /\ last.op = "require"
    /\ last.rm.exec
    /\ last.rm.path = GetMockModule(last.from, last.name)
    /\ Len(stack) >= 2
    /\ stack[Len(stack)].path = last.rm.path
    /\ isCurrentlyExecutingManualMock = last.rm.path
    /\ last.name \notin DOMAIN explicitShouldMock

\* ---------------------------------------------------------------- SpecResolve
\* Module code calls require.resolve and require.resolve.paths, with every
\* kind of request, from the test file and from the modules it has loaded.

\* stands for a request that is null or undefined (no request string reads so)
NullRequest == "null or undefined"
\* the options argument of require.resolve: absent, or {paths: [...]}
ResolveOptions ==
    {[given |-> FALSE, paths |-> <<>>], [given |-> TRUE, paths |-> <<>>],
     [given |-> TRUE, paths |-> <<"lib">>], [given |-> TRUE, paths |-> <<"none", "lib">>]}
ResolveRequests == {NullRequest, "", "a", "missing", "ghost"}
PathsRequests == {NullRequest, "", "./a", "..", "a", "nm/lib", "fs"}
ResolveFroms == {"a", "nm/lib"}

\* what the two functions hand back: a path, a list of directories, null, or
\* a thrown error with its message
Returned(kind, path, list) == [kind |-> kind, path |-> path, list |-> list]
Thrown(message) == [kind |-> "throw", path |-> message, list |-> <<>>]
ResolveArgumentError ==
    "The first argument to require.resolve must be a string. Received null or undefined."
PathsArgumentErrors ==
    [null |-> "The first argument to require.resolve.paths must be a string. Received null or undefined.",
     empty |-> "The first argument to require.resolve.paths must not be the empty string."]

\* path.resolve(from, '..'): the directory of the requiring file
Dirname(from) ==
    IF from \in NodeModuleFiles THEN "/project/nm"
    ELSE IF from \in {PotentialManualMock(p) : p \in FilesWithSiblingMock}
    THEN "/project/__mocks__"
    ELSE "/project"
\* path.resolve(from, '..', p)
PathResolve(from, p) == Dirname(from) \o "/" \o p
\* Resolver.resolveModuleFromDirIfExists(dir, name, {paths: [dir]}): one
\* directory of the project holds a file for one request
ResolveModuleFromDirIfExists(dir, moduleName) ==
    IF dir = "/project/lib" /\ moduleName = "a" THEN "/project/lib/a" ELSE ""
\* Resolver.getModulePaths(dir): the node_modules chain from dir upwards
GetModulePaths(dir) == <<dir \o "/node_modules", "/node_modules">>
\* moduleName[0] === '.'
StartsWithDot(moduleName) == moduleName \in {"./a", ".."}

\* _requireResolve, lines 571-612
RequireResolveS(from, moduleName, options) ==
    IF moduleName = NullRequest
    THEN Thrown(ResolveArgumentError)
    ELSE IF options.given
    THEN LET found == {i \in 1..Len(options.paths) :
                          ResolveModuleFromDirIfExists(
                              PathResolve(from, options.paths[i]), moduleName) # ""}
         IN  IF found = {}
             THEN Thrown("Cannot resolve module")
             ELSE LET i == CHOOSE n \in found : \A m \in found : n <= m
                  IN  Returned("path",
                               ResolveModuleFromDirIfExists(
                                   PathResolve(from, options.paths[i]), moduleName),
                               <<>>)
    ELSE IF moduleName = "" \/ Resolvable(moduleName)
    THEN \* _resolveModule: `to ? this._resolver.resolveModule(from, to) : from`
         Returned("path", ResolveModule(from, moduleName), <<>>)
    ELSE IF GetMockModule(from, moduleName) # ""
    THEN Returned("path", GetMockModule(from, moduleName), <<>>)
    ELSE Thrown("Cannot find module")

\* A variant of require.resolve.paths that skips the test for a leading dot.
ResolvePathsIgnoringDot(from, moduleName) ==
    IF moduleName \in {NullRequest, ""} THEN Thrown(PathsArgumentErrors.null)
    ELSE IF IsCoreModule(moduleName) THEN Returned("null", "", <<>>)
    ELSE Returned("list", "", GetModulePaths(Dirname(from)))

\* _requireResolvePaths, lines 614-633
RequireResolvePathsS(from, moduleName) ==
    IF moduleName = NullRequest THEN Thrown(PathsArgumentErrors.null)
    ELSE IF moduleName = "" THEN Thrown(PathsArgumentErrors.empty)
    ELSE IF StartsWithDot(moduleName) THEN Returned("list", "", <<Dirname(from)>>)
    ELSE IF IsCoreModule(moduleName) THEN Returned("null", "", <<>>)
    ELSE Returned("list", "", GetModulePaths(Dirname(from)))

\* require.resolve(moduleName, options) in the running module (lines 861-862)
RequireResolve(moduleName, options) ==
    /\ LET r == RequireResolveS(CurFrom, moduleName, options)
       IN  last' = [Obs("resolve", CurFrom, moduleName,
                        IF r.kind = "throw" THEN "throw" ELSE "return", Null)
                    EXCEPT !.val = r]
    /\ UNCHANGED <<policyVars, memoVars, loaderVars>>

\* require.resolve.paths(moduleName) in the running module (lines 863-864)
RequireResolvePaths(moduleName) ==
    /\ LET r == RequireResolvePathsS(CurFrom, moduleName)
       IN  last' = [Obs("resolve.paths", CurFrom, moduleName,
                        IF r.kind = "throw" THEN "throw" ELSE "return", Null)
                    EXCEPT !.val = r]
    /\ UNCHANGED <<policyVars, memoVars, loaderVars>>

NextResolve ==
    \/ \E moduleName \in ResolveFroms : Require(moduleName)
    \/ Return
    \/ \E moduleName \in ResolveRequests, options \in ResolveOptions :
           RequireResolve(moduleName, options)
    \/ \E moduleName \in PathsRequests : RequireResolvePaths(moduleName)

SpecResolve == Init /\ [][NextResolve]_vars

\* C27: require.resolve called with a null, an undefined or an empty-string
\* request throws the argument error and returns no path.
C27_ResolveRejectsMissing ==
    [][(last'.op = "resolve" /\ last'.name \in {NullRequest, ""})
       => /\ last'.ret = "throw"
          /\ last'.val = Thrown(ResolveArgumentError)]_vars

\* C28: require.resolve.paths throws for a null and for an empty request,
\* returns the one-element list [dirname(from)] for a request that begins with
\* a dot, null for a host built-in, and the resolver's module-path chain for
\* dirname(from) in every other case.
C28_ResolvePaths ==
    [][last'.op = "resolve.paths"
       => LET from == last'.from
              moduleName == last'.name
          IN  IF moduleName \in {NullRequest, ""}
              THEN /\ last'.ret = "throw"
                   /\ last'.val.kind = "throw"
                   /\ last'.val.path \in {PathsArgumentErrors.null,
                                          PathsArgumentErrors.empty}
              ELSE /\ last'.ret = "return"
                   /\ last'.val =
                          IF StartsWithDot(moduleName)
                          THEN Returned("list", "", <<Dirname(from)>>)
                          ELSE IF IsCoreModule(moduleName)
                          THEN Returned("null", "", <<>>)
                          ELSE Returned("list", "", GetModulePaths(Dirname(from)))]_vars

\* a module inside the vendored directory has just asked for the paths of a
\* relative request and was given its own directory alone
C28_Witness ==
    /\ last.op = "resolve.paths"
    /\ stack # <<>>
    /\ last.from \in NodeModuleFiles
    /\ StartsWithDot(last.name)
    /\ last.val = Returned("list", "", <<"/project/nm">>)

\* ---------------------------------------------------------------- SpecSourceMap
\* The transformer writes a sidecar source map for some files and asks for
\* coverage remapping for some of those; sidecars can disappear from the disk.
\* The test loads modules, and the coverage reporter asks for the source maps
\* of sets of files.
SourceMapFiles == {"a", "b"}
SidecarPath(filename) == "cache/" \o filename \o ".map"
TransformResults(filename) ==
    {NoSourceMap} \cup {[sourceMapPath |-> SidecarPath(filename), mapCoverage |-> c] :
                           c \in BOOLEAN}
CoveredFileSets == SUBSET (SourceMapFiles \cup {TestPath})

InitSourceMap ==
    /\ Constructed
    /\ shouldAutoMock = FALSE
    /\ scriptTransformer \in
           {t \in [SourceMapFiles -> UNION {TransformResults(f) : f \in SourceMapFiles}] :
                \A f \in SourceMapFiles : t[f] \in TransformResults(f)}
    /\ disk = {SidecarPath(f) : f \in SourceMapFiles}

\* A variant of getSourceMapInfo that does not look for the sidecar on disk.
SourceMapInfoUnchecked(s, coveredFiles) ==
    LET keep == {sourcePath \in DOMAIN s.sourceMapRegistry :
                     /\ sourcePath \in coveredFiles
                     /\ sourcePath \in s.needsCoverageMapped}
    IN  [sourcePath \in keep |-> s.sourceMapRegistry[sourcePath]]

\* getSourceMapInfo(coveredFiles), lines 519-530
GetSourceMapInfoS(s, coveredFiles) ==
    LET keep == {sourcePath \in DOMAIN s.sourceMapRegistry :
                     /\ sourcePath \in coveredFiles
                     /\ sourcePath \in s.needsCoverageMapped
                     /\ s.sourceMapRegistry[sourcePath] \in disk}
    IN  [sourcePath \in keep |-> s.sourceMapRegistry[sourcePath]]

\* the coverage reporter calls runtime.getSourceMapInfo(coveredFiles)
GetSourceMapInfo(coveredFiles) ==
    /\ last' = [Obs("getSourceMapInfo", "", "", "return", Null)
                EXCEPT !.val = [coveredFiles |-> coveredFiles,
                                result |-> GetSourceMapInfoS(St, coveredFiles)]]
    /\ UNCHANGED <<policyVars, memoVars, loaderVars>>

\* a sidecar is deleted (the transform cache is cleaned)
Unlink(sidecar) ==
    /\ sidecar \in disk
    /\ disk' = disk \ {sidecar}
    /\ last' = Obs("unlink", "", sidecar, "", Null)
    /\ UNCHANGED <<registryVars, ambientVars, mockMetaDataCache, policyVars, memoVars,
                   envVars, sourceMapRegistry, needsCoverageMapped, scriptTransformer,
                   hostVars, stack, calls>>

NextSourceMap ==
    \/ \E moduleName \in SourceMapFiles : Require(moduleName)
    \/ Return
    \/ \E coveredFiles \in CoveredFileSets : GetSourceMapInfo(coveredFiles)
    \/ \E f \in SourceMapFiles : Unlink(SidecarPath(f))

SpecSourceMap == InitSourceMap /\ [][NextSourceMap]_vars

\* C29: executing a file for which the transformer wrote a sidecar registers
\* the sidecar's path (and the file in needsCoverageMapped when coverage is to
\* be remapped).  getSourceMapInfo(files) returns, for each file of the given
\* set that has a registered sidecar, is in needsCoverageMapped and whose
\* sidecar exists on disk, the entry file: sidecarPath, and nothing else; so
\* for a registered file f, getSourceMapInfo({f}) is {f: sidecarPath} under
\* those conditions and {} otherwise.
C29_SourceMapRoundTrip ==
    [][/\ (/\ last'.rm.exec
           /\ Len(stack') = Len(stack) + 1)
          => LET f == stack'[Len(stack')].path
             IN  /\ Transform(f).sourceMapPath # ""
                    => /\ f \in DOMAIN sourceMapRegistry'
                       /\ sourceMapRegistry'[f] = Transform(f).sourceMapPath
                       /\ Transform(f).mapCoverage => f \in needsCoverageMapped'
                 /\ Transform(f).sourceMapPath = ""
                    => /\ sourceMapRegistry' = sourceMapRegistry
                       /\ needsCoverageMapped' = needsCoverageMapped
       /\ last'.op = "getSourceMapInfo"
          => LET coveredFiles == last'.val.coveredFiles
                 result == last'.val.result
             IN  /\ DOMAIN result \subseteq coveredFiles
                 /\ \A f \in coveredFiles :
                        IF /\ f \in DOMAIN sourceMapRegistry
                           /\ f \in needsCoverageMapped
                           /\ sourceMapRegistry[f] \in disk
                        THEN f \in DOMAIN result /\ result[f] = sourceMapRegistry[f]
                        ELSE f \notin DOMAIN result]_vars

\* the reporter asked for two executed files that both have a registered
\* sidecar: one is returned with its sidecar, the other is left out because
\* its sidecar is gone from the disk or its coverage needs no remapping
C29_Witness ==
    /\ last.op = "getSourceMapInfo"
    /\ \E f, g \in SourceMapFiles :
           /\ {f, g} \subseteq last.val.coveredFiles
           /\ {f, g} \subseteq DOMAIN sourceMapRegistry
           /\ f \in DOMAIN last.val.result
           /\ last.val.result[f] = SidecarPath(f)
           /\ g \notin DOMAIN last.val.result

\* ---------------------------------------------------------------- SpecHandle
\* The test and the modules it loads call the mutators of their framework
\* handle, one after the other.
HandleNames == {"b"}
HandleLoads == {"a"}
\* mutators that reach the mock registry of the module mocker (lines 936-947)
MockerMutators == {"clearAllMocks", "resetAllMocks", "restoreAllMocks"}
\* mutators that reach the sandbox's fake timers (lines 948-955)
TimerMutators == {"useFakeTimers", "useRealTimers"}
\* mutators that write a property of the sandbox's global (lines 967-979)
GlobalMutators == {"setTimeout", "retryTimes"}
\* the operations of the handle that are declared to return the handle
Mutators ==
    {"disableAutomock", "enableAutomock", "mock", "unmock", "deepUnmock", "setMock",
     "resetModules", "isolateModules"}
        \cup MockerMutators \cup TimerMutators \cup GlobalMutators

\* A variant of the mutators below that returns nothing.
HandleMutatorVoid(s, op) == [s EXCEPT !.last.ret = "undefined"]

\* clearAllMocks .. retryTimes: the call on the collaborator, then
\* `return jestObject`.  Dereferencing a part of the sandbox that teardown has
\* set to null is a TypeError.
HandleMutatorS(s, op) ==
    IF \/ op \in TimerMutators /\ ~environment.fakeTimers
       \/ op \in GlobalMutators /\ ~environment.global
    THEN Raise(s)
    ELSE [s EXCEPT !.last.ret = "jestObject", !.last.inst = JestObjectOf(s.stack)]

HandleMutator(op) ==
    /\ CountCall
    /\ Finish(HandleMutatorS(Begin(op, ""), op))
    /\ UNCHANGED <<policyVars, memoVars>>

NextHandle ==
    \/ \E moduleName \in HandleLoads : Require(moduleName)
    \/ Return
    \/ ResetModules
    \/ IsolateModules
    \/ \E op \in MockerMutators \cup TimerMutators \cup GlobalMutators : HandleMutator(op)
    \/ DisableAutomock /\ PolicyFrame
    \/ EnableAutomock /\ PolicyFrame
    \/ \E moduleName \in HandleNames : Mock(CurFrom, moduleName) /\ PolicyFrame
    \/ \E moduleName \in HandleNames : Unmock(CurFrom, moduleName) /\ PolicyFrame
    \/ \E moduleName \in HandleNames : DeepUnmock(CurFrom, moduleName) /\ PolicyFrame
    \/ \E moduleName \in HandleNames : SetMock(CurFrom, moduleName, 1, FALSE) /\ PolicyFrame

SpecHandle == Init /\ [][NextHandle]_vars

\* C30: every mutator of the framework handle that returns (disableAutomock,
\* enableAutomock, mock/doMock, unmock/dontMock, deepUnmock, setMock,
\* resetModules/resetModuleRegistry, isolateModules once its callback has
\* returned, clearAllMocks, resetAllMocks, restoreAllMocks, useFakeTimers,
\* useRealTimers, setTimeout, retryTimes) returns the handle it was called on,
\* so in a chain of such calls every call is made on the same handle.
C30_MutatorsReturnHandle ==
    [][/\ (/\ last'.op \in Mutators \ {"isolateModules"}
           /\ last'.ret # "throw")
          => /\ last'.ret = "jestObject"
             /\ last'.inst = JestObjectOf(stack)
       /\ (/\ last'.op = "return"
           /\ stack # <<>>
           /\ stack[Len(stack)].k = "iso")
          => /\ last'.ret = "jestObject"
             /\ last'.inst = JestObjectOf(SubSeq(stack, 1, Len(stack) - 1))
       /\ (/\ last.op \in Mutators
           /\ last.ret = "jestObject"
           /\ last'.op \in Mutators \ {"isolateModules"}
           /\ last'.ret # "throw"
           /\ stack' = stack)
          => last'.inst = last.inst]_vars

\* a chain of two mutators called by a module body on its own handle (not the
\* test file's) has just returned that handle
C30_Witness ==
    /\ last.op \in MockerMutators \cup TimerMutators \cup GlobalMutators
    /\ last.ret = "jestObject"
    /\ stack # <<>>
    /\ last.inst = stack[Len(stack)].inst
    /\ last.inst # Null
    /\ "b" \in DOMAIN explicitShouldMock

\* ---------------------------------------------------------------- SpecExec
\* The executor builds the argument list of the module wrapper (lines 704-727)
\* for every configuration of extra globals and every content of the sandbox
\* global.

\* the names config.extraGlobals may list, and what the sandbox global holds
\* under such a name: nothing, the sandbox global itself (global.window,
\* global.global), or an object of its own
ExtraGlobalNames == {"window", "Math"}
GlobalValues == {"undefined", "global", "object"}

\* new Set(iterable), read back with Array.from: the values in insertion
\* order, a value that is already a member (SameValueZero) being dropped
RECURSIVE NewSet(_)
NewSet(values) ==
    IF values = <<>> THEN <<>>
    ELSE LET front == NewSet(SubSeq(values, 1, Len(values) - 1))
             value == values[Len(values)]
         IN  IF \E i \in DOMAIN front : front[i] = value
             THEN front
             ELSE Append(front, value)

\* _execModule lines 705-726: Array.from(moduleArguments), or the error thrown
\* by the map callback for an extra global that the sandbox global lacks
ModuleArguments(extraGlobals, global) ==
    IF \E i \in DOMAIN extraGlobals : global[extraGlobals[i]] = "undefined"
    THEN [kind |-> "throw", args |-> <<>>]
    ELSE [kind |-> "call",
          args |-> NewSet(<<"module", "exports", "require", "__dirname", "__filename",
                            "global", "jest">>
                          \o [i \in DOMAIN extraGlobals |-> global[extraGlobals[i]]])]

\* the executor reaches line 704 for the running module, under a configuration
\* and a sandbox global
CallWrapper(extraGlobals, global) ==
    /\ LET r == ModuleArguments(extraGlobals, global)
       IN  last' = [Obs("wrapper", CurFrom, "",
                        IF r.kind = "throw" THEN "throw" ELSE "call", Null)
                    EXCEPT !.val = [extraGlobals |-> extraGlobals, global |-> global,
                                    args |-> r.args]]
    /\ UNCHANGED <<policyVars, memoVars, loaderVars>>

NextExec ==
    \/ \E moduleName \in {"a"} : Require(moduleName)
    \/ Return
    \/ \E n \in 0..2 :
         \E extraGlobals \in [1..n -> ExtraGlobalNames] :
           \E global \in [ExtraGlobalNames -> GlobalValues] :
               CallWrapper(extraGlobals, global)

SpecExec == Init /\ [][NextExec]_vars

\* C31: whenever the module wrapper is called, it is called with exactly
\* 7 + n arguments: module, exports, require, __dirname, __filename, global,
\* the framework handle, then the values of the n configured extra globals in
\* configuration order.
C31_ArgumentOrder ==
    [][(last'.op = "wrapper" /\ last'.ret = "call")
       => LET extraGlobals == last'.val.extraGlobals
              args == last'.val.args
          IN  /\ Len(args) = 7 + Len(extraGlobals)
              /\ SubSeq(args, 1, 7) = <<"module", "exports", "require", "__dirname",
                                        "__filename", "global", "jest">>
              /\ \A i \in DOMAIN extraGlobals :
                     args[7 + i] = last'.val.global[extraGlobals[i]]]_vars

\* ---------------------------------------------------------------- SpecRunTest
\* runTestInternal runs one test file: it builds the sandbox, awaits its
\* setup, awaits the test framework, and awaits the teardown in the finally
\* block.  Code of the test file calls process.exit of the sandbox while the
\* framework runs or later (a callback it left behind).  runTest.log is what
\* the function and the sandbox's exit function have done, in order.

\* an entry of the log
Event(ev, args) == [ev |-> ev, args |-> args]
\* the argument lists user code passes to process.exit
ExitArguments == {<<>>, <<0>>, <<1>>}
\* args.join(', ')
ArgsJoin(args) == IF args = <<>> THEN "" ELSE IF args = <<0>> THEN "0" ELSE "1"

\* A variant of the exit function that exits before it reports.
ExitThenReport(args) ==
    <<Event("realExit", args), Event("stderr", <<ArgsJoin(args)>>)>>

\* the function installed as environment.global.process.exit, lines 364-381
ExitCall(args) ==
    <<Event("stderr", <<ArgsJoin(args)>>), Event("realExit", args)>>

\* lines 250-386, up to the first await: the sandbox is built, its
\* process.exit (when there is one) is replaced, environment.setup() is called
RunTestInternal(hasExit) ==
    /\ runTest.pc = "idle"
    /\ runTest' = [pc |-> "setup", exit |-> IF hasExit THEN "patched" ELSE "none",
                   outcome |-> "", log |-> <<Event("setup", <<>>)>>]
    /\ UNCHANGED <<policyVars, memoVars, registryVars, ambientVars, mockMetaDataCache,
                   envVars, sourceMapVars, watch, testRun, stack, calls, last>>

\* the finally block is entered, lines 433-434: environment.teardown() is called
EnterFinally(rt, outcome) ==
    [rt EXCEPT !.pc = "teardown", !.outcome = outcome,
               !.log = Append(@, Event("teardown", <<>>))]

\* A variant of lines 387-401 whose handler does not reach the finally block.
RethrowWithoutFinally(rt, how, postThrows) ==
    IF how = "threw"
    THEN [rt EXCEPT !.pc = "rejected", !.outcome = "throw",
                    !.log = Append(@, Event("frameworkThrew", <<>>))]
    ELSE EnterFinally([rt EXCEPT !.log = Append(@, Event("frameworkResolved", <<>>))],
                      IF postThrows THEN "throw" ELSE "return")

\* lines 387-434 after the promise of the framework has settled: the error is
\* rethrown (lines 396-401), or the result is completed (lines 403-427, which
\* throw for a result that is not a test result), and the finally block runs
AfterFramework(rt, how, postThrows) ==
    IF how = "threw"
    THEN EnterFinally([rt EXCEPT !.log = Append(@, Event("frameworkThrew", <<>>))],
                      "throw")
    ELSE EnterFinally([rt EXCEPT !.log = Append(@, Event("frameworkResolved", <<>>))],
                      IF postThrows THEN "throw" ELSE "return")

\* `await environment.setup()` is over, line 385: the framework is called
\* (lines 389-395), or the rejection goes to the finally block
SetupSettles(ok) ==
    /\ runTest.pc = "setup"
    /\ IF ok
       THEN /\ runTest' = [runTest EXCEPT
                              !.pc = "framework",
                              !.log = @ \o <<Event("setupDone", <<>>),
                                             Event("framework", <<>>)>>]
            /\ UNCHANGED environment
       ELSE /\ runTest' = EnterFinally(runTest, "throw")
            /\ environment' \in TornDownEnvironments
    /\ UNCHANGED <<policyVars, memoVars, registryVars, ambientVars, mockMetaDataCache,
                   exitCode, errorLog, sourceMapVars, watch, testRun, stack, calls, last>>

\* `await testFramework(...)` is over
FrameworkSettles(how, postThrows) ==
    /\ runTest.pc = "framework"
    /\ runTest' = AfterFramework(runTest, how, postThrows)
    /\ environment' \in TornDownEnvironments
    /\ UNCHANGED <<policyVars, memoVars, registryVars, ambientVars, mockMetaDataCache,
                   exitCode, errorLog, sourceMapVars, watch, testRun, stack, calls, last>>

\* `await environment.teardown()` is over, lines 434-437: the promise of
\* runTestInternal settles
TeardownSettles(ok) ==
    /\ runTest.pc = "teardown"
    /\ runTest' = [runTest EXCEPT
                      !.pc = IF ok /\ runTest.outcome = "return"
                             THEN "resolved" ELSE "rejected",
                      !.log = Append(@, Event("teardownDone", <<>>))]
    /\ UNCHANGED <<policyVars, memoVars, registryVars, ambientVars, mockMetaDataCache,
                   envVars, sourceMapVars, watch, testRun, stack, calls, last>>

\* code of the test file calls process.exit(...args) in the sandbox; the real
\* exit ends the process or (a stub) returns
ProcessExit(args, terminates) ==
    /\ runTest.pc \in {"framework", "teardown", "resolved", "rejected"}
    /\ runTest.exit = "patched"
    /\ \E i \in DOMAIN runTest.log : runTest.log[i].ev = "framework"
    /\ CountCall
    /\ runTest' = [runTest EXCEPT !.pc = IF terminates THEN "exited" ELSE @,
                                  !.log = @ \o ExitCall(args)]
    /\ UNCHANGED <<policyVars, memoVars, registryVars, ambientVars, mockMetaDataCache,
                   envVars, sourceMapVars, watch, testRun, stack, last>>

NextRunTest ==
    \/ \E hasExit \in BOOLEAN : RunTestInternal(hasExit)
    \/ \E ok \in BOOLEAN : SetupSettles(ok)
    \/ \E how \in {"resolved", "threw"}, postThrows \in BOOLEAN :
           FrameworkSettles(how, postThrows)
    \/ \E ok \in BOOLEAN : TeardownSettles(ok)
    \/ \E args \in ExitArguments, terminates \in BOOLEAN : ProcessExit(args, terminates)

SpecRunTest == Init /\ [][NextRunTest]_vars

\* C32: every call of the real exit is immediately preceded by the write to
\* stderr of the formatted call with the same arguments, and every such write
\* is immediately followed by the call of the real exit.
C32_ReportThenExit ==
    runTest.pc # "idle" =>
        \A i \in DOMAIN runTest.log :
            /\ runTest.log[i].ev = "realExit"
               => /\ i > 1
                  /\ runTest.log[i - 1] =
                         Event("stderr", <<ArgsJoin(runTest.log[i].args)>>)
            /\ runTest.log[i].ev = "stderr"
               => /\ i < Len(runTest.log)
                  /\ runTest.log[i + 1].ev = "realExit"

\* the test file has called process.exit(1) after an earlier call that the
\* real exit returned from
C32_Witness ==
    /\ runTest.pc = "exited"
    /\ Len(runTest.log) >= 4
    /\ runTest.log[Len(runTest.log)] = Event("realExit", <<1>>)
    /\ runTest.log[Len(runTest.log) - 1] = Event("stderr", <<"1">>)
    /\ \E i \in 1..(Len(runTest.log) - 2) : runTest.log[i].ev = "realExit"

\* C33: the framework starts only after setup() has completed; teardown() is
\* called at most once, exactly once as soon as the framework has settled
\* (resolved or thrown), and after the framework settled when it had started;
\* the framework does not start after teardown() was called.
C33_SetupTeardownBracket ==
    runTest.pc # "idle" =>
        LET log == runTest.log
            at(ev) == {i \in DOMAIN log : log[i].ev = ev}
            settled == at("frameworkResolved") \cup at("frameworkThrew")
        IN  /\ \A i \in at("framework") : \E j \in at("setupDone") : j < i
            /\ Cardinality(at("teardown")) <= 1
            /\ settled # {} => Cardinality(at("teardown")) = 1
            /\ (at("teardown") # {} /\ at("framework") # {}) => settled # {}
            /\ \A i \in at("teardown") : \A j \in at("framework") \cup settled : j < i
            /\ runTest.pc \in {"resolved", "rejected"}
               => Cardinality(at("teardown")) = 1

\* the framework threw, teardown() was called after that and has completed,
\* and the promise of runTestInternal is rejected
C33_Witness ==
    /\ runTest.pc = "rejected"
    /\ \E i, j, k \in DOMAIN runTest.log :
           /\ i < j /\ j < k
           /\ runTest.log[i].ev = "frameworkThrew"
           /\ runTest.log[j].ev = "teardown"
           /\ runTest.log[k].ev = "teardownDone"

\* ---------------------------------------------------------------- SpecMain
\* The code of a module reads require.main, while modules are loaded, mocked
\* and the registries reset around it.

\* The getter of `main` installed at lines 866-883, for the module object
\* `inst`, after `seen`: the loop follows mainModule.parent while there is one
\* with another id.  The parent of a module object is known to the model while
\* the module's body is on the stack ("unknown" when the walk leaves those
\* modules); a walk that comes back to a module object it has visited never
\* ends ("diverges").
RECURSIVE MainWalk(_, _)
MainWalk(mainModule, seen) ==
    LET frames == {n \in DOMAIN stack : stack[n].k = "body" /\ stack[n].inst = mainModule}
        parent == Parent(stack[CHOOSE n \in frames : TRUE])
    IN  IF mainModule = Null THEN [ret |-> "null", inst |-> Null]
        ELSE IF frames = {} THEN [ret |-> "unknown", inst |-> mainModule]
        ELSE IF parent = Null \/ insts[parent].path = insts[mainModule].path
        THEN [ret |-> "module", inst |-> mainModule]
        ELSE IF parent \in seen THEN [ret |-> "diverges", inst |-> parent]
        ELSE MainWalk(parent, seen \cup {mainModule})

\* the running module body evaluates require.main: `let mainModule = from.parent`
ReadMain ==
    /\ stack # <<>>
    /\ stack[Len(stack)].k = "body"
    /\ LET r == MainWalk(Parent(stack[Len(stack)]), {})
       IN  last' = Obs("main", CurFrom, "", r.ret, r.inst)
    /\ UNCHANGED <<policyVars, memoVars, loaderVars>>

NextMain ==
    \/ \E moduleName \in LoaderNames : Require(moduleName)
    \/ \E moduleName \in LoaderNames : RequireMock(moduleName)
    \/ ResetModules
    \/ IsolateModules
    \/ Return
    \/ ReadMain

SpecMain == Init /\ [][NextMain]_vars

\* C34: a read of require.main terminates: the walk along the parent chain
\* never comes back to a module object it has already visited.
C34_MainTerminates ==
    [][last'.op = "main" => last'.ret # "diverges"]_vars

\* C35: when an error propagates out of the module body that is executed to
\* obtain auto-mock metadata, then once it has left the generation the main
\* module registry and the main mock registry are the objects they were when
\* the generation started, the module registry has the contents it had then,
\* and the metadata cache holds no placeholder for the module.
C35_GenerationRestoredOnThrow ==
    [][(last'.ret = "throw" /\ Len(stack') < Len(stack))
       => \A n \in (Len(stack') + 1)..Len(stack) :
              (/\ stack[n].k = "body"
               /\ stack[n].ctx.metaPath # ""
               /\ \A m \in (Len(stack') + 1)..(n - 1) : stack[m].ctx.metaPath = "")
              => LET ctx == stack[n].ctx
                 IN  /\ moduleRegistry' = ctx.origMod
                     /\ mockRegistry' = ctx.origMock
                     /\ modRegs'[ctx.origMod] = ctx.snap
                     /\ ~(/\ ctx.metaPath \in DOMAIN mockMetaDataCache'
                          /\ mockMetaDataCache'[ctx.metaPath] = "placeholder")]_vars

\* C36: whenever no module body is executing, every module object in the main
\* registry, in the isolated registry and in the internal registry has
\* loaded = true.
C36_RegisteredAreLoaded ==
    (\A n \in DOMAIN stack : stack[n].k # "body")
    => \A reg \in {moduleRegistry, isolatedModuleRegistry, internalModuleRegistry} \ {Null} :
           \A modulePath \in DOMAIN modRegs[reg] :
               insts[modRegs[reg][modulePath]].loaded

\* ---------------------------------------------------------------- SpecWatch
\* The watch mode of the command line: keys arrive on stdin, the haste map
\* reports file changes, the active plugin and the notification reporter call
\* back, and the run started by startRun completes or fails.  A run is known
\* by the test watcher that startRun handed to runJest; watch.running is the
\* set of runs that have neither called onComplete nor failed.

MaxEvents == 5    \* keys, file changes and callbacks handled by one watch session

\* the keys read from stdin; "p" is the key of an interactive plugin that has
\* a run and an onKey function, "q" the key of the plugin that quits
WatchKeys == {"ctrl-c", "q", "enter", "a", "o", "f", "c", "w", "p"}
WatchPlugins == {"p", "q"}
\* Number(usage.key).toString(16), line 1419, of a key that is a letter
NumberToString16(key) == "NaN"
\* the list of line 1425
AbortKeys == {"q", "enter", "a", "o", "f"} \cup {NumberToString16(key) : key \in WatchPlugins}

\* new TestWatcher({isWatchMode: true})
NewTestWatcher(w) ==
    [w EXCEPT !.watchers = @ + 1,
              !.testWatcher = [id |-> w.watchers + 1, interrupted |-> FALSE]]

\* A variant of startRun without the test of isRunning.
StartRunUnguarded(w) ==
    LET w1 == NewTestWatcher(w)
    IN  [w1 EXCEPT !.isRunning = TRUE, !.running = @ \cup {w1.testWatcher.id}]

\* startRun, lines 1341-1397, up to the call of runJest
StartRun(w) ==
    IF w.isRunning THEN w
    ELSE LET w1 == NewTestWatcher(w)
         IN  [w1 EXCEPT !.isRunning = TRUE, !.running = @ \cup {w1.testWatcher.id}]

\* updateConfigAndRun, lines 1191-1235, with the mode it is given
UpdateConfigAndRun(w, mode) ==
    StartRun([w EXCEPT !.globalConfig.mode = IF mode = "" THEN @ ELSE mode])

\* testWatcher.setState({interrupted: true})
Interrupt(w) == [w EXCEPT !.testWatcher.interrupted = TRUE]

\* onKeypress, lines 1399-1494
OnKeypress(w, key) ==
    IF key = "ctrl-c" THEN [w EXCEPT !.pc = "exited"]
    ELSE IF w.activePlugin = "p" THEN w          \* activePlugin.onKey(key)
    ELSE IF w.isRunning /\ key \in AbortKeys THEN Interrupt(w)
    ELSE IF key \in WatchPlugins /\ w.isRunning THEN Interrupt(w)
    ELSE IF key = "q" THEN [w EXCEPT !.activePlugin = "q", !.pc = "exited"]
    ELSE IF key = "p" THEN [w EXCEPT !.activePlugin = "p", !.pluginRuns = @ + 1]
    ELSE IF key = "enter" THEN StartRun(w)
    ELSE IF key = "a" THEN StartRun([w EXCEPT !.globalConfig.mode = "watchAll"])
    ELSE IF key = "c" THEN UpdateConfigAndRun(w, "watch")
    ELSE IF key = "f"
    THEN StartRun([w EXCEPT !.globalConfig.onlyFailures = ~@])
    ELSE IF key = "o" THEN StartRun([w EXCEPT !.globalConfig.mode = "watch"])
    ELSE w

\* one event of the session is handled: the closure becomes w
WatchEvent(ev, key, w) ==
    /\ watch.pc = "watching"
    /\ watch.events < MaxEvents
    /\ watch' = [w EXCEPT !.events = watch.events + 1, !.last = [ev |-> ev, key |-> key]]
    /\ UNCHANGED <<policyVars, memoVars, registryVars, ambientVars, mockMetaDataCache,
                   envVars, sourceMapVars, runTest, testRun, stack, calls, last>>

\* watch(...), lines 1173-1340 and 1515-1523: the closure is set up, stdin is
\* listened to and the first run is started
Watch(mode) ==
    /\ watch.pc = "idle"
    /\ watch' = StartRun([pc |-> "watching",
                          globalConfig |-> [mode |-> mode, onlyFailures |-> FALSE],
                          activePlugin |-> "", pluginRuns |-> 0,
                          isRunning |-> FALSE,
                          testWatcher |-> [id |-> 0, interrupted |-> FALSE],
                          watchers |-> 0, running |-> {}, events |-> 0,
                          last |-> [ev |-> "watch", key |-> ""]])
    /\ UNCHANGED <<policyVars, memoVars, registryVars, ambientVars, mockMetaDataCache,
                   envVars, sourceMapVars, runTest, testRun, stack, calls, last>>

\* stdin.on('data', onKeypress)
Keypress(key) == WatchEvent("keypress", key, OnKeypress(watch, key))

\* the listener of the haste map, lines 1303-1329, for an event queue with a
\* valid path
FileChange ==
    WatchEvent("change", "", StartRun([watch EXCEPT !.activePlugin = ""]))

\* the onComplete callback of a run, lines 1358-1383
OnComplete(run) ==
    /\ watch.pc = "watching"
    /\ run \in watch.running
    /\ WatchEvent("onComplete", "",
                  NewTestWatcher([watch EXCEPT !.isRunning = FALSE,
                                               !.running = @ \ {run}]))

\* the promise of runJest is rejected before onComplete was called: the
\* handler of lines 1387-1396 prints the error
RunJestRejects(run) ==
    /\ watch.pc = "watching"
    /\ run \in watch.running
    /\ WatchEvent("rejected", "", [watch EXCEPT !.running = @ \ {run}])

\* the plugin whose run is pending calls the function it was given
PluginCallsUpdateConfigAndRun ==
    /\ watch.pc = "watching"
    /\ watch.pluginRuns > 0
    /\ WatchEvent("plugin", "", UpdateConfigAndRun(watch, "watch"))

\* the promise of activePlugin.run settles, lines 1444-1455
PluginRunSettles(resolved, shouldRerun) ==
    /\ watch.pc = "watching"
    /\ watch.pluginRuns > 0
    /\ LET w == [watch EXCEPT !.activePlugin = "", !.pluginRuns = @ - 1]
       IN  WatchEvent("pluginSettled", "",
                      IF resolved /\ shouldRerun THEN UpdateConfigAndRun(w, "") ELSE w)

\* the notification reporter of a run calls the startRun it was given
NotificationStartRun ==
    /\ watch.pc = "watching"
    /\ WatchEvent("notification", "", StartRun(watch))

NextWatch ==
    \/ \E mode \in {"watch", "watchAll"} : Watch(mode)
    \/ \E key \in WatchKeys : Keypress(key)
    \/ FileChange
    \/ \E run \in 1..(2 * MaxEvents + 1) : OnComplete(run)
    \/ \E run \in 1..(2 * MaxEvents + 1) : RunJestRejects(run)
    \/ PluginCallsUpdateConfigAndRun
    \/ \E resolved, shouldRerun \in BOOLEAN : PluginRunSettles(resolved, shouldRerun)
    \/ NotificationStartRun

SpecWatch == Init /\ [][NextWatch]_vars

\* C37: once a run has ended (through onComplete or through a rejection of
\* runJest) and no run is in progress, an Enter keypress (no plugin being
\* active) or a valid file change starts a new run.
C37_RunsAgainAfterEnd ==
    [][(/\ watch.pc = "watching"
        /\ watch'.pc = "watching"
        /\ watch.running = {}
        /\ watch.activePlugin = ""
        /\ \/ watch'.last = [ev |-> "keypress", key |-> "enter"]
           \/ watch'.last.ev = "change"
        /\ watch'.events = watch.events + 1)
       => watch'.running # {}]_vars

\* C38 as stated: at most one run is in progress, and a key among q, Enter,
\* a, o, f or a plugin key pressed during a run marks the current test
\* watcher as interrupted and does nothing else.
C38_OneRunAsStated ==
    [][(/\ watch.pc = "watching"
        /\ watch'.pc = "watching")
       => /\ Cardinality(watch'.running) <= 1
          /\ (/\ watch.running # {}
              /\ watch'.last.ev = "keypress"
              /\ watch'.last.key \in {"q", "enter", "a", "o", "f"} \cup WatchPlugins
              /\ watch'.events = watch.events + 1)
             => /\ watch.testWatcher.id \in watch.running
                /\ watch' = [Interrupt(watch) EXCEPT !.events = @ + 1,
                                                     !.last = watch'.last]]_vars

\* C38: at most one run is in progress: a call of startRun made while a run is
\* in progress (by a key, a file change, a plugin or a notification) starts no
\* second run.  A key among q, Enter, a, o, f or a plugin key pressed during a
\* run, while no plugin with an onKey function is active, marks the test
\* watcher of that run as interrupted and does nothing else; while such a
\* plugin is active the key is left to the plugin and the closure is unchanged.
C38_OneRunAtATime ==
    [][(/\ watch.pc = "watching"
        /\ watch'.pc = "watching")
       => /\ Cardinality(watch'.running) <= 1
          /\ watch.running # {} => watch'.running \subseteq watch.running
          /\ (/\ watch.running # {}
              /\ watch'.last.ev = "keypress"
              /\ watch'.last.key \in {"q", "enter", "a", "o", "f"} \cup WatchPlugins
              /\ watch'.events = watch.events + 1)
             => /\ watch.testWatcher.id \in watch.running
                /\ watch' = [(IF watch.activePlugin = "p" THEN watch ELSE Interrupt(watch))
                             EXCEPT !.events = @ + 1, !.last = watch'.last]]_vars

\* during the second run of the session, which no plugin accompanies, the key
\* f has just marked the run's test watcher as interrupted
C38_Witness ==
    /\ watch.pc = "watching"
    /\ watch.last = [ev |-> "keypress", key |-> "f"]
    /\ watch.running = {watch.testWatcher.id}
    /\ watch.testWatcher.id > 1
    /\ watch.testWatcher.interrupted
    /\ watch.activePlugin = ""
    /\ ~watch.globalConfig.onlyFailures

\* -------------------------------------------------------------- SpecInBand
\* TestRunner._createInBandTestRun: one promise chain per test, each chained to
\* the promise of the test before it and started by a throat of size 1.
\* testRun.st[j] is where the chain of test j stands: "queued" in the throat,
\* "then" (started, its first callback not yet run), inside one of the calls
\* onStart, runTest, onResult, onFailure, or settled; testRun.err[j] is the
\* error onFailure(tests[j], err) was called with, testRun.reason[j] the
\* reason the chain was rejected with.

MaxTests == 3    \* length of the list of tests handed to runTests

TestErrors == {"CancelRun", "onStartError", "testError", "onResultError", "onFailureError"}

Settled(st) == st \in {"resolved", "rejected"}

\* throat(size): the function of test j is started when it is the first one
\* waiting and fewer than size started functions have an unsettled promise;
\* held is the set of places where the promise of a started function is
\* unsettled
Throat(size, tr, j, held) ==
    /\ tr.st[j] = "queued"
    /\ \A i \in 1..(j - 1) : tr.st[i] # "queued"
    /\ Cardinality({i \in 1..tr.n : tr.st[i] \in held}) < size

\* the functions that throat starts at once when they are handed to it
ThroatStarts(size, n) == [j \in 1..n |-> IF j <= size THEN "then" ELSE "queued"]

\* onFailure(test, err) is called
CallOnFailure(tr, j, err) == [tr EXCEPT !.st[j] = "onFailure", !.err[j] = err]

\* one step of the test run; the rest of the program is idle
TestRunStep(tr) ==
    /\ testRun' = tr
    /\ UNCHANGED <<policyVars, memoVars, registryVars, ambientVars, mockMetaDataCache,
                   envVars, sourceMapVars, runTest, watch, stack, calls, last>>

\* _createInBandTestRun(tests, watcher, ...), lines 60-92: tests.reduce hands
\* one function per test to the throat; interrupted is the watcher's state at
\* the call
CreateInBandTestRun(n, interrupted) ==
    /\ testRun.pc = "idle"
    /\ TestRunStep([pc |-> "inband", n |-> n, interrupted |-> interrupted,
                    st |-> ThroatStarts(1, n),
                    err |-> [j \in 1..n |-> ""],
                    reason |-> [j \in 1..n |-> ""]])

\* the throat starts the function of test j: promise.then(...).then(...).catch(...)
MutexStarts(j) ==
    /\ testRun.pc = "inband"
    /\ j \in 1..testRun.n
    /\ Throat(1, testRun, j, {"then", "onStart", "runTest", "onResult", "onFailure"})
    /\ TestRunStep([testRun EXCEPT !.st[j] = "then"])

\* the first callback of the chain, lines 73-78, up to the call of onStart
InBandBody(tr, j) ==
    IF tr.interrupted THEN CallOnFailure(tr, j, "CancelRun")
    ELSE [tr EXCEPT !.st[j] = "onStart"]

\* the promise of the test before j (Promise.resolve() for the first test) has
\* settled: the chain of j runs its first callback, or, the promise being
\* rejected, skips both then-callbacks and runs the catch-callback
PromiseSettled(j) ==
    /\ testRun.pc = "inband"
    /\ j \in 1..testRun.n
    /\ testRun.st[j] = "then"
    /\ j > 1 => Settled(testRun.st[j - 1])
    /\ TestRunStep(IF j > 1 /\ testRun.st[j - 1] = "rejected"
                   THEN CallOnFailure(testRun, j, testRun.reason[j - 1])
                   ELSE InBandBody(testRun, j))

\* await onStart(test) settles, lines 78-85: runTest is called
OnStartSettles(j, ok) ==
    /\ testRun.pc = "inband"
    /\ j \in 1..testRun.n
    /\ testRun.st[j] = "onStart"
    /\ TestRunStep(IF ok THEN [testRun EXCEPT !.st[j] = "runTest"]
                   ELSE CallOnFailure(testRun, j, "onStartError"))

\* the promise of runTest settles, line 87: onResult(test, result) is called
RunTestSettles(j, ok) ==
    /\ testRun.pc = "inband"
    /\ j \in 1..testRun.n
    /\ testRun.st[j] = "runTest"
    /\ TestRunStep(IF ok THEN [testRun EXCEPT !.st[j] = "onResult"]
                   ELSE CallOnFailure(testRun, j, "testError"))

\* onResult(test, result) settles, lines 87-88
OnResultSettles(j, ok) ==
    /\ testRun.pc = "inband"
    /\ j \in 1..testRun.n
    /\ testRun.st[j] = "onResult"
    /\ TestRunStep(IF ok THEN [testRun EXCEPT !.st[j] = "resolved"]
                   ELSE CallOnFailure(testRun, j, "onResultError"))

\* onFailure(test, err) settles, line 88: the chain settles as it does
OnFailureSettles(j, ok) ==
    /\ testRun.pc = "inband"
    /\ j \in 1..testRun.n
    /\ testRun.st[j] = "onFailure"
    /\ TestRunStep(IF ok THEN [testRun EXCEPT !.st[j] = "resolved"]
                   ELSE [testRun EXCEPT !.st[j] = "rejected",
                                        !.reason[j] = "onFailureError"])

\* watcher.setState({interrupted: true}) while the run is in progress
WatcherInterrupted ==
    /\ testRun.pc = "inband"
    /\ ~testRun.interrupted
    /\ TestRunStep([testRun EXCEPT !.interrupted = TRUE])

NextInBand ==
    \/ \E n \in 1..MaxTests, interrupted \in BOOLEAN : CreateInBandTestRun(n, interrupted)
    \/ \E j \in 1..MaxTests : MutexStarts(j)
    \/ \E j \in 1..MaxTests : PromiseSettled(j)
    \/ \E j \in 1..MaxTests, ok \in BOOLEAN : OnStartSettles(j, ok)
    \/ \E j \in 1..MaxTests, ok \in BOOLEAN : RunTestSettles(j, ok)
    \/ \E j \in 1..MaxTests, ok \in BOOLEAN : OnResultSettles(j, ok)
    \/ \E j \in 1..MaxTests, ok \in BOOLEAN : OnFailureSettles(j, ok)
    \/ WatcherInterrupted

SpecInBand == Init /\ [][NextInBand]_vars

\* C39: in an in-band run the tests are handled one at a time in list order
\* (while a call of test j is pending every earlier test has settled and no
\* later one has started a call); when the turn of a test comes and the
\* watcher is not interrupted its onStart is called, whatever happened to the
\* tests before it; when the turn of a test comes and the watcher is
\* interrupted, onFailure is called for it with a CancelRun error; and runTest
\* is called only after the test's own onStart.
C39_InBandRun ==
    [][(testRun.pc = "inband" /\ testRun'.pc = "inband")
       => \A j \in 1..testRun.n :
              /\ testRun'.st[j] \in {"onStart", "runTest", "onResult", "onFailure"}
                 => /\ \A i \in 1..(j - 1) : Settled(testRun'.st[i])
                    /\ \A i \in (j + 1)..testRun.n : testRun'.st[i] \in {"queued", "then"}
              /\ (testRun.st[j] = "then" /\ testRun'.st[j] # "then")
                 => IF testRun.interrupted
                    THEN testRun'.st[j] = "onFailure" /\ testRun'.err[j] = "CancelRun"
                    ELSE testRun'.st[j] = "onStart"
              /\ (testRun.st[j] # "runTest" /\ testRun'.st[j] = "runTest")
                 => testRun.st[j] = "onStart"]_vars

\* ------------------------------------------------------------ SpecParallel
\* TestRunner._createParallelTestRun: a throat of size maxWorkers starts the
\* function of each test (the watcher is asked, onStart is awaited, the test
\* is sent to the worker); onResult and onError follow outside the throat.
\* Promise.all over the tests races with onInterrupt, and the winner calls
\* worker.end().  testRun.st[j] is "queued", "onStart", "worker", "onResult",
\* "onFailure" (inside onError) or settled; testRun.ended counts the calls of
\* worker.end().

WorkerCounts == {1, 2}     \* values of globalConfig.maxWorkers

\* Promise.all(tests.map(...)), lines 153-159
RunAllTests(tr) ==
    IF \E j \in 1..tr.n : tr.st[j] = "rejected" THEN "rejected"
    ELSE IF \A j \in 1..tr.n : tr.st[j] = "resolved" THEN "resolved"
    ELSE "pending"

\* Promise.race([runAllTests, onInterrupt]).then(cleanup, cleanup), lines
\* 161-162: the first of the two to settle calls worker.end()
Race(tr) ==
    IF tr.race = "pending" /\ (RunAllTests(tr) # "pending" \/ tr.onInterrupt = "rejected")
    THEN [tr EXCEPT !.race = "settled", !.ended = @ + 1]
    ELSE tr

\* the function handed to the throat, lines 116-121, up to the call of onStart;
\* Promise.reject() goes to onError with an undefined error
RunTestInWorker(tr, j) ==
    IF tr.interrupted THEN CallOnFailure(tr, j, "undefined")
    ELSE [tr EXCEPT !.st[j] = "onStart"]

RECURSIVE StartAll(_, _)
\* tests.map(test => runTestInWorker(test)...): the throat starts the functions
\* of the first maxWorkers tests within the call
StartAll(tr, j) ==
    IF j = 0 THEN tr
    ELSE RunTestInWorker(StartAll(tr, j - 1), j)

\* _createParallelTestRun(tests, watcher, ...), lines 94-163
CreateParallelTestRun(n, maxWorkers, interrupted) ==
    /\ testRun.pc = "idle"
    /\ TestRunStep(Race(StartAll([pc |-> "parallel", n |-> n, maxWorkers |-> maxWorkers,
                                  interrupted |-> interrupted,
                                  st |-> [j \in 1..n |-> "queued"],
                                  err |-> [j \in 1..n |-> ""],
                                  reason |-> [j \in 1..n |-> ""],
                                  onInterrupt |-> "pending", race |-> "pending",
                                  ended |-> 0],
                                 IF n < maxWorkers THEN n ELSE maxWorkers)))

\* the throat starts the function of a queued test
ThroatRuns(j) ==
    /\ testRun.pc = "parallel"
    /\ j \in 1..testRun.n
    /\ Throat(testRun.maxWorkers, testRun, j, {"onStart", "worker"})
    /\ TestRunStep(Race(RunTestInWorker(testRun, j)))

\* await onStart(test) settles, lines 121-131: worker.worker({...}) is called
WorkerCalled(j, ok) ==
    /\ testRun.pc = "parallel"
    /\ j \in 1..testRun.n
    /\ testRun.st[j] = "onStart"
    /\ TestRunStep(Race(IF ok THEN [testRun EXCEPT !.st[j] = "worker"]
                        ELSE CallOnFailure(testRun, j, "onStartError")))

\* the promise of worker.worker settles, lines 156-157: onResult or onError
WorkerSettles(j, outcome) ==
    /\ testRun.pc = "parallel"
    /\ j \in 1..testRun.n
    /\ testRun.st[j] = "worker"
    /\ TestRunStep(Race(IF outcome = "result" THEN [testRun EXCEPT !.st[j] = "onResult"]
                        ELSE CallOnFailure(testRun, j, outcome)))

\* onResult(test, testResult) settles, lines 156-157
ParallelResultSettles(j, ok) ==
    /\ testRun.pc = "parallel"
    /\ j \in 1..testRun.n
    /\ testRun.st[j] = "onResult"
    /\ TestRunStep(Race(IF ok THEN [testRun EXCEPT !.st[j] = "resolved"]
                        ELSE CallOnFailure(testRun, j, "onResultError")))

\* onError, lines 134-143, after await onFailure(test, err): err.type is read
OnError(j, ok) ==
    /\ testRun.pc = "parallel"
    /\ j \in 1..testRun.n
    /\ testRun.st[j] = "onFailure"
    /\ TestRunStep(
           IF ~ok
           THEN Race([testRun EXCEPT !.st[j] = "rejected", !.reason[j] = "onFailureError"])
           ELSE IF testRun.err[j] = "undefined"
           THEN Race([testRun EXCEPT !.st[j] = "rejected", !.reason[j] = "TypeError"])
           ELSE IF testRun.err[j] = "ProcessTerminatedError"
           THEN [testRun EXCEPT !.st[j] = "resolved", !.pc = "exited"]     \* exit(1)
           ELSE Race([testRun EXCEPT !.st[j] = "resolved"]))

\* watcher.setState({interrupted: true}) emits 'change': the listener of lines
\* 146-150 rejects onInterrupt
WatcherChange ==
    /\ testRun.pc = "parallel"
    /\ ~testRun.interrupted \/ testRun.onInterrupt = "pending"
    /\ TestRunStep(Race([testRun EXCEPT !.interrupted = TRUE, !.onInterrupt = "rejected"]))

NextParallel ==
    \/ \E n \in 1..MaxTests, maxWorkers \in WorkerCounts, interrupted \in BOOLEAN :
           CreateParallelTestRun(n, maxWorkers, interrupted)
    \/ \E j \in 1..MaxTests : ThroatRuns(j)
    \/ \E j \in 1..MaxTests, ok \in BOOLEAN : WorkerCalled(j, ok)
    \/ \E j \in 1..MaxTests, outcome \in {"result", "testError", "ProcessTerminatedError"} :
           WorkerSettles(j, outcome)
    \/ \E j \in 1..MaxTests, ok \in BOOLEAN : ParallelResultSettles(j, ok)
    \/ \E j \in 1..MaxTests, ok \in BOOLEAN : OnError(j, ok)
    \/ WatcherChange

SpecParallel == Init /\ [][NextParallel]_vars

\* C40: in a parallel run at most maxWorkers tests are between the call of
\* their onStart and the completion of their worker call; no test is sent to a
\* worker once the watcher is interrupted; worker.end() is called at most
\* once, and the call is made by the step that settles the last test or by the
\* first change event that finds the watcher interrupted.
C40_ParallelRun ==
    [][(testRun'.pc = "parallel")
       => /\ Cardinality({j \in 1..testRun'.n : testRun'.st[j] \in {"onStart", "worker"}})
                 <= testRun'.maxWorkers
          /\ testRun'.ended <= 1
          /\ testRun.pc = "parallel"
             => /\ \A j \in 1..testRun.n :
                       (testRun.st[j] # "worker" /\ testRun'.st[j] = "worker")
                       => ~testRun.interrupted
                /\ testRun'.ended > testRun.ended
                   => \/ \A j \in 1..testRun.n : Settled(testRun'.st[j])
                      \/ testRun.onInterrupt = "pending" /\ testRun'.onInterrupt = "rejected"]_vars

====
